---- MODULE Spec2Model ----
(***************************************************************************)
(* A model of libblepp's GATT server: the attribute database               *)
(* (src/src/bleattributedb.cc), the ATT request/response state machine and *)
(* the connection table (src/src/blegattserver.cc) running on the BlueZ    *)
(* L2CAP transport (src/src/bluez_transport.cc).                           *)
(*                                                                         *)
(* Bytes are the integers 0..255, a PDU or an attribute value is a         *)
(* sequence of bytes, and a C index i into a PDU is the index i+1 here.    *)
(***************************************************************************)
EXTENDS Integers, Sequences, FiniteSets, TLC

---------------------------------------------------------------------------
(* Program constants.                                                      *)

ATT_OP_ERROR == 1
ATT_OP_MTU_REQ == 2
ATT_OP_MTU_RSP == 3
ATT_OP_FIND_INFO_REQ == 4
ATT_OP_FIND_INFO_RSP == 5
ATT_OP_FIND_BY_TYPE_VALUE_REQ == 6
ATT_OP_FIND_BY_TYPE_VALUE_RSP == 7
ATT_OP_READ_BY_TYPE_REQ == 8
ATT_OP_READ_BY_TYPE_RSP == 9
ATT_OP_READ_REQ == 10
ATT_OP_READ_RSP == 11
ATT_OP_READ_BLOB_REQ == 12
ATT_OP_READ_BLOB_RSP == 13
ATT_OP_READ_BY_GROUP_TYPE_REQ == 16
ATT_OP_READ_BY_GROUP_TYPE_RSP == 17
ATT_OP_WRITE_REQ == 18
ATT_OP_WRITE_RSP == 19
ATT_OP_WRITE_CMD == 82
ATT_OP_PREPARE_WRITE_REQ == 22
ATT_OP_EXECUTE_WRITE_REQ == 24
ATT_OP_HANDLE_NOTIFY == 27
ATT_OP_HANDLE_INDICATE == 29
ATT_OP_HANDLE_CONFIRM == 30
ATT_OP_SIGNED_WRITE_CMD == 210

ATT_DEFAULT_MTU == 23
ATT_MAX_MTU == 517

ATT_PERM_READ == 1
ATT_PERM_WRITE == 2
ATT_PERM_READ_ENCRYPT == 4
ATT_PERM_WRITE_ENCRYPT == 8
ATT_PERM_READ_AUTHEN == 16
ATT_PERM_WRITE_AUTHEN == 32

GATT_CHR_PROP_BROADCAST == 1
GATT_CHR_PROP_READ == 2
GATT_CHR_PROP_WRITE_NO_RSP == 4
GATT_CHR_PROP_WRITE == 8
GATT_CHR_PROP_NOTIFY == 16
GATT_CHR_PROP_INDICATE == 32
GATT_CHR_PROP_AUTH_WRITE == 64

GATT_CHR_F_BROADCAST == 1
GATT_CHR_F_READ == 2
GATT_CHR_F_WRITE_NO_RSP == 4
GATT_CHR_F_WRITE == 8
GATT_CHR_F_NOTIFY == 16
GATT_CHR_F_INDICATE == 32
GATT_CHR_F_AUTH_SIGN_WRITE == 64
GATT_CHR_F_READ_ENC == 512
GATT_CHR_F_READ_AUTHEN == 1024
GATT_CHR_F_WRITE_ENC == 4096
GATT_CHR_F_WRITE_AUTHEN == 8192

BLE_ATT_ERR_INVALID_HANDLE == 1
BLE_ATT_ERR_READ_NOT_PERM == 2
BLE_ATT_ERR_WRITE_NOT_PERM == 3
BLE_ATT_ERR_INVALID_PDU == 4
BLE_ATT_ERR_REQ_NOT_SUPPORTED == 6
BLE_ATT_ERR_INVALID_OFFSET == 7
BLE_ATT_ERR_ATTR_NOT_FOUND == 10
BLE_ATT_ERR_UNLIKELY == 14
BLE_ATT_ERR_UNSUPPORTED_GROUP_TYPE == 16

(* The last handle allocate_handle refuses to hand out, and the value a     *)
(* default-constructed Attribute carries as end_group_handle.              *)
HANDLE_LIMIT == 65535
END_GROUP_DEFAULT == 65535

---------------------------------------------------------------------------
(* Bytes, little-endian integers, bit tests.                               *)

Lo(x) == x % 256
Hi(x) == (x \div 256) % 256
U16LE(x) == <<Lo(x), Hi(x)>>

(* pdu[i] of the C code.                                                   *)
At(pdu, i) == pdu[i + 1]
(* pdu[i] | (pdu[i+1] << 8)                                                *)
RdU16(pdu, i) == At(pdu, i) + 256 * At(pdu, i + 1)

(* A value computed once and used under a name, as a local of the C++.    *)
With(x, F(_)) == F(x)

Min(a, b) == IF a <= b THEN a ELSE b
Take(s, n) == SubSeq(s, 1, Min(n, Len(s)))
Drop(s, k) == SubSeq(s, k + 1, Len(s))

(* x & mask # 0, for a mask of one bit.                                    *)
HasBit(x, mask) == (x \div mask) % 2 = 1

(* uint8_t arithmetic.                                                     *)
U8(x) == x % 256

(* size_t(a - b) for a uint16_t a promoted to int: a negative difference   *)
(* wraps to a value above every length the model can build.                *)
SIZE_WRAP == 1073741824
SizeTSub(a, b) == IF a >= b THEN a - b ELSE SIZE_WRAP + (a - b)

(* The byte string 1, 2, .., n: every slice of it is told from any other.  *)
Bytes(n) == [i \in 1..n |-> i]

---------------------------------------------------------------------------
(* UUIDs. A UUID is a 16-bit number or sixteen bytes in memory order;      *)
(* equality widens the short form to the Bluetooth Base UUID.              *)

UUID16(v) == [type |-> "BT_UUID16", u |-> v]
UUID128(bytes) == [type |-> "BT_UUID128", u |-> bytes]
UUID_UNSPEC == [type |-> "BT_UUID_UNSPEC", u |-> 0]

BaseUuidBytes(v) ==
  <<251, 52, 155, 95, 128, 0, 0, 128, 0, 16, 0, 0, Lo(v), Hi(v), 0, 0>>

Widen(uuid) == IF uuid.type = "BT_UUID16" THEN BaseUuidBytes(uuid.u) ELSE uuid.u

UuidEq(a, b) ==
  /\ a.type # "BT_UUID_UNSPEC"
  /\ b.type # "BT_UUID_UNSPEC"
  /\ Widen(a) = Widen(b)

(* The bytes a service or characteristic declaration stores for a UUID.    *)
UuidValue(uuid) == IF uuid.type = "BT_UUID16" THEN U16LE(uuid.u) ELSE uuid.u

UUID_PRIMARY_SERVICE == UUID16(10240)
UUID_SECONDARY_SERVICE == UUID16(10241)
UUID_INCLUDE == UUID16(10242)
UUID_CHARACTERISTIC == UUID16(10243)
UUID_CCCD == UUID16(10498)

---------------------------------------------------------------------------
(* The attribute database. A database value is the record of the three     *)
(* members of BLEAttributeDatabase; every add_* operator returns the       *)
(* database it leaves behind and the handle it returns.                    *)

(* An absent std::function, and the access callback of                     *)
(* create_read_only_service, which captures the value it serves. A row's   *)
(* read_cb / write_cb is the access callback together with the operation   *)
(* the wrapping lambda of register_services passes to it.                  *)
NoCb == [cb |-> "none", value |-> <<>>, op |-> "none"]
ReadOnlyCb(value) == [cb |-> "read_only", value |-> value, op |-> "none"]

(* char_def.access_cb(conn_handle, op, offset, data): the returned code    *)
(* and the contents of data on return.                                     *)
access_cb(cb, offset, data) ==
  IF cb.op = "READ_CHR"
  THEN [code |-> 0, data |-> cb.value]
  ELSE [code |-> BLE_ATT_ERR_UNLIKELY, data |-> data]

Attribute ==
  [handle |-> 0, type |-> "DESCRIPTOR", uuid |-> UUID_UNSPEC, permissions |-> 0,
   value |-> <<>>, properties |-> 0, value_handle |-> 0,
   end_group_handle |-> END_GROUP_DEFAULT, read_cb |-> NoCb, write_cb |-> NoCb]

EmptyDb == [attributes_ |-> <<>>, next_handle_ |-> 1, services_ |-> <<>>]

(* attributes_[h] = attr                                                   *)
Put(attrs, h, attr) ==
  [k \in (DOMAIN attrs) \cup {h} |-> IF k = h THEN attr ELSE attrs[k]]

allocate_handle(db) ==
  IF db.next_handle_ = HANDLE_LIMIT
  THEN [db |-> db, ret |-> 0]
  ELSE [db |-> [db EXCEPT !.next_handle_ = @ + 1], ret |-> db.next_handle_]

flags_to_properties(flags) ==
    (IF HasBit(flags, GATT_CHR_F_BROADCAST) THEN GATT_CHR_PROP_BROADCAST ELSE 0)
  + (IF HasBit(flags, GATT_CHR_F_READ) THEN GATT_CHR_PROP_READ ELSE 0)
  + (IF HasBit(flags, GATT_CHR_F_WRITE_NO_RSP) THEN GATT_CHR_PROP_WRITE_NO_RSP ELSE 0)
  + (IF HasBit(flags, GATT_CHR_F_WRITE) THEN GATT_CHR_PROP_WRITE ELSE 0)
  + (IF HasBit(flags, GATT_CHR_F_NOTIFY) THEN GATT_CHR_PROP_NOTIFY ELSE 0)
  + (IF HasBit(flags, GATT_CHR_F_INDICATE) THEN GATT_CHR_PROP_INDICATE ELSE 0)
  + (IF HasBit(flags, GATT_CHR_F_AUTH_SIGN_WRITE) THEN GATT_CHR_PROP_AUTH_WRITE ELSE 0)

flags_to_permissions(flags) ==
    (IF HasBit(flags, GATT_CHR_F_READ) THEN ATT_PERM_READ ELSE 0)
  + (IF HasBit(flags, GATT_CHR_F_WRITE) \/ HasBit(flags, GATT_CHR_F_WRITE_NO_RSP)
     THEN ATT_PERM_WRITE ELSE 0)
  + (IF HasBit(flags, GATT_CHR_F_READ_ENC) THEN ATT_PERM_READ_ENCRYPT ELSE 0)
  + (IF HasBit(flags, GATT_CHR_F_WRITE_ENC) THEN ATT_PERM_WRITE_ENCRYPT ELSE 0)
  + (IF HasBit(flags, GATT_CHR_F_READ_AUTHEN) THEN ATT_PERM_READ_AUTHEN ELSE 0)
  + (IF HasBit(flags, GATT_CHR_F_WRITE_AUTHEN) THEN ATT_PERM_WRITE_AUTHEN ELSE 0)

(* get_attribute(h) != nullptr                                             *)
HasAttribute(db, h) == h \in DOMAIN db.attributes_

add_service(db, uuid, type, type_uuid) ==
  LET a == allocate_handle(db)
      attr == [Attribute EXCEPT !.handle = a.ret, !.type = type, !.uuid = type_uuid,
                                !.permissions = ATT_PERM_READ, !.value = UuidValue(uuid)]
  IN IF a.ret = 0 THEN [db |-> a.db, ret |-> 0]
     ELSE [db |-> [a.db EXCEPT
                     !.attributes_ = Put(@, a.ret, attr),
                     !.services_ = Append(@, [start_handle |-> a.ret,
                                              end_handle |-> a.ret])],
           ret |-> a.ret]

add_primary_service(db, uuid) ==
  add_service(db, uuid, "PRIMARY_SERVICE", UUID_PRIMARY_SERVICE)

add_secondary_service(db, uuid) ==
  add_service(db, uuid, "SECONDARY_SERVICE", UUID_SECONDARY_SERVICE)

update_service_end_handle(db, service_handle, last_handle) ==
  LET hits == {i \in DOMAIN db.services_ :
                 db.services_[i].start_handle = service_handle}
      first == CHOOSE i \in hits : \A j \in hits : i <= j
      svcs == IF hits = {} THEN db.services_
              ELSE [db.services_ EXCEPT ![first].end_handle = last_handle]
      attrs == IF HasAttribute(db, service_handle)
               THEN [db.attributes_ EXCEPT
                       ![service_handle].end_group_handle = last_handle]
               ELSE db.attributes_
  IN [db EXCEPT !.services_ = svcs, !.attributes_ = attrs]

add_include(db, service_handle, included_service_handle) ==
  LET a == allocate_handle(db)
      inc_svc == a.db.attributes_[included_service_handle]
      attr == [Attribute EXCEPT
                 !.handle = a.ret, !.type = "INCLUDE", !.uuid = UUID_INCLUDE,
                 !.permissions = ATT_PERM_READ,
                 !.value = U16LE(included_service_handle)
                           \o U16LE(inc_svc.end_group_handle)
                           \o (IF inc_svc.uuid.type = "BT_UUID16"
                               THEN U16LE(inc_svc.uuid.u) ELSE <<>>)]
  IN IF a.ret = 0 THEN [db |-> a.db, ret |-> 0]
     ELSE IF ~HasAttribute(a.db, included_service_handle)
     THEN [db |-> a.db, ret |-> 0]
     ELSE [db |-> update_service_end_handle(
                    [a.db EXCEPT !.attributes_ = Put(@, a.ret, attr)],
                    service_handle, a.ret),
           ret |-> a.ret]

add_descriptor(db, char_handle, uuid, permissions) ==
  With(allocate_handle(db), LAMBDA a :
  With([a.db EXCEPT !.attributes_ =
          Put(@, a.ret, [Attribute EXCEPT !.handle = a.ret, !.type = "DESCRIPTOR",
                                          !.uuid = uuid, !.permissions = permissions])],
       LAMBDA d1 :
  With({i \in DOMAIN d1.services_ :
          /\ char_handle >= d1.services_[i].start_handle
          /\ char_handle <= d1.services_[i].end_handle}, LAMBDA hits :
  With(CHOOSE i \in hits \cup {0} : \A j \in hits : i >= j, LAMBDA it :
  With(IF hits = {} THEN 0 ELSE d1.services_[it].start_handle, LAMBDA svc :
    IF a.ret = 0 THEN [db |-> a.db, ret |-> 0]
    ELSE IF hits = {} THEN [db |-> d1, ret |-> a.ret]
    ELSE IF HasAttribute(d1, svc)
    THEN [db |-> [d1 EXCEPT !.services_[it].end_handle = a.ret,
                            !.attributes_[svc].end_group_handle = a.ret],
          ret |-> a.ret]
    ELSE [db |-> [d1 EXCEPT !.services_[it].end_handle = a.ret], ret |-> a.ret])))))

add_cccd(db, char_value_handle) ==
  With(add_descriptor(db, char_value_handle, UUID_CCCD, ATT_PERM_READ + ATT_PERM_WRITE),
       LAMBDA d :
    IF d.ret # 0
    THEN [db |-> [d.db EXCEPT !.attributes_[d.ret].value = <<0, 0>>], ret |-> d.ret]
    ELSE d)

add_characteristic(db, service_handle, uuid, properties, permissions) ==
  With(allocate_handle(db), LAMBDA a1 :
  With(allocate_handle(a1.db), LAMBDA a2 :
  With([decl_handle |-> a1.ret, value_handle |-> a2.ret], LAMBDA h :
  With([a2.db EXCEPT !.attributes_ =
          Put(Put(@, h.decl_handle,
                  [Attribute EXCEPT
                     !.handle = h.decl_handle, !.type = "CHARACTERISTIC",
                     !.uuid = UUID_CHARACTERISTIC, !.permissions = ATT_PERM_READ,
                     !.properties = properties, !.value_handle = h.value_handle,
                     !.value = <<properties>> \o U16LE(h.value_handle)
                                 \o UuidValue(uuid)]),
              h.value_handle,
              [Attribute EXCEPT
                 !.handle = h.value_handle, !.type = "CHARACTERISTIC_VALUE",
                 !.uuid = uuid, !.permissions = permissions,
                 !.properties = properties])], LAMBDA d1 :
  With(update_service_end_handle(d1, service_handle, h.value_handle), LAMBDA d2 :
  With(add_cccd(d2, h.value_handle), LAMBDA c :
    IF h.decl_handle = 0 \/ h.value_handle = 0
    THEN [db |-> a2.db, ret |-> 0]
    ELSE IF HasBit(properties, GATT_CHR_PROP_NOTIFY)
            \/ HasBit(properties, GATT_CHR_PROP_INDICATE)
    THEN IF c.ret # 0
         THEN [db |-> update_service_end_handle(c.db, service_handle, c.ret),
               ret |-> h.decl_handle]
         ELSE [db |-> c.db, ret |-> h.decl_handle]
    ELSE [db |-> d2, ret |-> h.decl_handle]))))))

(* register_services: the loops over descriptors, characteristics,         *)
(* included services and services, each returning the database and 0 or -1.*)
SetCallbacks(db, h, cb, read_op, write_op) ==
  IF cb.cb # "none" /\ HasAttribute(db, h)
  THEN [db EXCEPT !.attributes_[h].read_cb = [cb EXCEPT !.op = read_op],
                  !.attributes_[h].write_cb = [cb EXCEPT !.op = write_op]]
  ELSE db

RECURSIVE RegisterDescriptors(_, _, _, _)
RegisterDescriptors(db, char_value_handle, dscs, i) ==
  IF i > Len(dscs) THEN [db |-> db, ret |-> 0]
  ELSE With(add_descriptor(db, char_value_handle, dscs[i].uuid, dscs[i].permissions),
            LAMBDA d :
         IF d.ret = 0 THEN [db |-> d.db, ret |-> -1]
         ELSE RegisterDescriptors(
                SetCallbacks(d.db, d.ret, dscs[i].access_cb, "READ_DSC", "WRITE_DSC"),
                char_value_handle, dscs, i + 1))

RECURSIVE RegisterCharacteristics(_, _, _, _)
RegisterCharacteristics(db, svc_handle, chars, i) ==
  IF i > Len(chars) THEN [db |-> db, ret |-> 0]
  ELSE With(add_characteristic(db, svc_handle, chars[i].uuid,
                               flags_to_properties(chars[i].flags),
                               flags_to_permissions(chars[i].flags)), LAMBDA c :
       With((c.ret + 1) % 65536, LAMBDA char_value_handle :
       With(RegisterDescriptors(
              SetCallbacks(c.db, char_value_handle, chars[i].access_cb,
                           "READ_CHR", "WRITE_CHR"),
              char_value_handle, chars[i].descriptors, 1), LAMBDA d :
         IF c.ret = 0 THEN [db |-> c.db, ret |-> -1]
         ELSE IF d.ret # 0 THEN d
         ELSE RegisterCharacteristics(d.db, svc_handle, chars, i + 1))))

RECURSIVE RegisterIncludes(_, _, _, _)
RegisterIncludes(db, svc_handle, incs, i) ==
  IF i > Len(incs) THEN db
  ELSE RegisterIncludes(add_include(db, svc_handle, incs[i]).db, svc_handle, incs, i + 1)

RECURSIVE RegisterServiceDefs(_, _, _)
RegisterServiceDefs(db, services, i) ==
  IF i > Len(services) THEN [db |-> db, ret |-> 0]
  ELSE With(IF services[i].type = "PRIMARY"
            THEN add_primary_service(db, services[i].uuid)
            ELSE add_secondary_service(db, services[i].uuid), LAMBDA s :
       With(RegisterCharacteristics(
              RegisterIncludes(s.db, s.ret, services[i].included_services, 1),
              s.ret, services[i].characteristics, 1), LAMBDA c :
         IF s.ret = 0 THEN [db |-> s.db, ret |-> -1]
         ELSE IF c.ret # 0 THEN c
         ELSE RegisterServiceDefs(c.db, services, i + 1)))

register_services(db, services) == RegisterServiceDefs(db, services, 1)

(* The typed searches: the matching handles in ascending order, as the     *)
(* iteration over the std::map yields them.                                *)
RECURSIVE Ascending(_)
Ascending(S) ==
  IF S = {} THEN <<>>
  ELSE LET m == CHOOSE x \in S : \A y \in S : x <= y
       IN <<m>> \o Ascending(S \ {m})

InRange(attr, start_handle, end_handle) ==
  attr.handle >= start_handle /\ attr.handle <= end_handle

get_range(attrs, start_handle, end_handle) ==
  Ascending({h \in DOMAIN attrs : InRange(attrs[h], start_handle, end_handle)})

find_by_type(attrs, start_handle, end_handle, type) ==
  Ascending({h \in DOMAIN attrs :
               /\ InRange(attrs[h], start_handle, end_handle)
               /\ UuidEq(attrs[h].uuid, type)})

find_by_type_value(attrs, start_handle, end_handle, type, value) ==
  Ascending({h \in DOMAIN attrs :
               /\ InRange(attrs[h], start_handle, end_handle)
               /\ UuidEq(attrs[h].uuid, type)
               /\ attrs[h].value = value})

---------------------------------------------------------------------------
(* The transport's MTU accessors and send_pdu. A server-side value st is   *)
(* the record of attributes_ (attrs), the server's connections_ (conns)    *)
(* and the transport's connections_ (tconns).                              *)

get_mtu(tconns, conn_handle) ==
  IF conn_handle \in DOMAIN tconns THEN tconns[conn_handle].mtu ELSE 23

set_mtu(tconns, conn_handle, mtu) ==
  IF conn_handle \in DOMAIN tconns
  THEN [tconns EXCEPT ![conn_handle].mtu = mtu]
  ELSE tconns

(* send_pdu: the PDUs that reach the socket (none for an unknown           *)
(* connection) and the value returned.                                     *)
send_pdu(tconns, conn_handle, pdu) ==
  IF conn_handle \in DOMAIN tconns
  THEN [sent |-> <<pdu>>, ret |-> Len(pdu)]
  ELSE [sent |-> <<>>, ret |-> -1]

(* What a handler leaves behind: the state, the PDUs sent, the rows whose  *)
(* write hook it invoked and the rows whose value it assigned.             *)
Done(st, tx, hooks) == [st |-> st, sent |-> tx.sent, hooks |-> hooks, stored |-> {}]

send_error_response(st, conn_handle, opcode, handle, error_code) ==
  Done(st, send_pdu(st.tconns, conn_handle,
                    <<ATT_OP_ERROR, opcode, Lo(handle), Hi(handle), U8(error_code)>>),
       {})

(* invoke_read_callback: the code returned and out_data on return.         *)
invoke_read_callback(attr, conn_handle, offset) ==
  IF attr.read_cb.cb # "none" THEN access_cb(attr.read_cb, offset, <<>>)
  ELSE IF offset >= Len(attr.value)
  THEN [code |-> BLE_ATT_ERR_INVALID_OFFSET, data |-> <<>>]
  ELSE [code |-> 0, data |-> Drop(attr.value, offset)]

(* invoke_write_callback: the code returned and the row afterwards.        *)
invoke_write_callback(attr, conn_handle, data) ==
  IF attr.write_cb.cb # "none"
  THEN [code |-> access_cb(attr.write_cb, 0, data).code, attr |-> attr,
        hooks |-> {attr.handle}, stored |-> {}]
  ELSE [code |-> 0, attr |-> [attr EXCEPT !.value = data], hooks |-> {},
        stored |-> {attr.handle}]

(* An MTU exchange that takes a request of two bytes for a whole one.      *)
handle_mtu_exchange_req_lax(st, conn_handle, pdu) ==
  IF Len(pdu) < 2
  THEN send_error_response(st, conn_handle, ATT_OP_MTU_REQ, 0, BLE_ATT_ERR_INVALID_PDU)
  ELSE Done(st, send_pdu(st.tconns, conn_handle,
                         <<ATT_OP_MTU_RSP, Lo(ATT_MAX_MTU), Hi(ATT_MAX_MTU)>>), {})

handle_mtu_exchange_req(st, conn_handle, pdu) ==
  LET client_mtu == RdU16(pdu, 1)
      server_mtu == ATT_MAX_MTU
      negotiated_mtu == Min(client_mtu, server_mtu)
      conns == IF conn_handle \in DOMAIN st.conns
               THEN [st.conns EXCEPT ![conn_handle].mtu = negotiated_mtu]
               ELSE st.conns
      tconns == set_mtu(st.tconns, conn_handle, negotiated_mtu)
      st1 == [st EXCEPT !.conns = conns, !.tconns = tconns]
  IN IF Len(pdu) < 3
     THEN send_error_response(st, conn_handle, ATT_OP_MTU_REQ, 0,
                              BLE_ATT_ERR_INVALID_PDU)
     ELSE Done(st1, send_pdu(tconns, conn_handle,
                             <<ATT_OP_MTU_RSP, Lo(server_mtu), Hi(server_mtu)>>), {})

RECURSIVE FindInfoRecords(_, _, _, _, _, _)
FindInfoRecords(attrs, hs, i, rsp, format, max_data) ==
  LET attr == attrs[hs[i]]
      handle_uuid_len == IF format = 1 THEN 4 ELSE 18
  IN IF i > Len(hs) THEN rsp
     ELSE IF \/ (attr.uuid.type = "BT_UUID16" /\ format # 1)
             \/ (attr.uuid.type = "BT_UUID128" /\ format # 2)
     THEN rsp
     ELSE IF Len(rsp) + handle_uuid_len > max_data THEN rsp
     ELSE FindInfoRecords(attrs, hs, i + 1,
                          rsp \o U16LE(attr.handle) \o UuidValue(attr.uuid),
                          format, max_data)

send_find_info_rsp(st, conn_handle, hs) ==
  LET format == IF st.attrs[hs[1]].uuid.type = "BT_UUID16" THEN 1 ELSE 2
      mtu == get_mtu(st.tconns, conn_handle)
      max_data == SizeTSub(mtu, 2)
  IN Done(st, send_pdu(st.tconns, conn_handle,
                       FindInfoRecords(st.attrs, hs, 1, <<ATT_OP_FIND_INFO_RSP, format>>,
                                       format, max_data)), {})

handle_find_info_req(st, conn_handle, pdu) ==
  LET start_handle == RdU16(pdu, 1)
      end_handle == RdU16(pdu, 3)
      hs == get_range(st.attrs, start_handle, end_handle)
  IN IF Len(pdu) < 5
     THEN send_error_response(st, conn_handle, ATT_OP_FIND_INFO_REQ, 0,
                              BLE_ATT_ERR_INVALID_PDU)
     ELSE IF start_handle = 0 \/ start_handle > end_handle
     THEN send_error_response(st, conn_handle, ATT_OP_FIND_INFO_REQ, start_handle,
                              BLE_ATT_ERR_INVALID_HANDLE)
     ELSE IF hs = <<>>
     THEN send_error_response(st, conn_handle, ATT_OP_FIND_INFO_REQ, start_handle,
                              BLE_ATT_ERR_ATTR_NOT_FOUND)
     ELSE send_find_info_rsp(st, conn_handle, hs)

(* The value Read By Type puts in a record: the hook's data, or the stored *)
(* value when the read fails.                                              *)
ReadByTypeValue(attr, conn_handle) ==
  LET r == invoke_read_callback(attr, conn_handle, 0)
  IN IF r.code # 0 THEN attr.value ELSE r.data

RECURSIVE ReadByTypeRecords(_, _, _, _, _, _, _)
ReadByTypeRecords(attrs, hs, i, rsp, pair_len, max_data, conn_handle) ==
  LET attr == attrs[hs[i]]
      value == ReadByTypeValue(attr, conn_handle)
      value_len == Min(Len(value), SizeTSub(pair_len, 2))
  IN IF i > Len(hs) THEN rsp
     ELSE IF Len(rsp) + pair_len > max_data THEN rsp
     ELSE ReadByTypeRecords(attrs, hs, i + 1,
                            rsp \o U16LE(attr.handle) \o Take(value, value_len),
                            pair_len, max_data, conn_handle)

send_read_by_type_rsp(st, conn_handle, hs) ==
  LET mtu == get_mtu(st.tconns, conn_handle)
      first_value == ReadByTypeValue(st.attrs[hs[1]], conn_handle)
      pair_len == U8(2 + Len(first_value))
      max_data == SizeTSub(mtu, 2)
  IN Done(st, send_pdu(st.tconns, conn_handle,
                       ReadByTypeRecords(st.attrs, hs, 1,
                                         <<ATT_OP_READ_BY_TYPE_RSP, pair_len>>,
                                         pair_len, max_data, conn_handle)), {})

(* The type UUID of a Read By Type / Read By Group Type request of length  *)
(* 7 or 21.                                                                *)
RequestTypeUuid(pdu) ==
  IF Len(pdu) = 7 THEN UUID16(RdU16(pdu, 5)) ELSE UUID128(SubSeq(pdu, 6, 21))

handle_read_by_type_req(st, conn_handle, pdu) ==
  LET start_handle == RdU16(pdu, 1)
      end_handle == RdU16(pdu, 3)
      type_uuid == RequestTypeUuid(pdu)
      hs == find_by_type(st.attrs, start_handle, end_handle, type_uuid)
  IN IF Len(pdu) < 7 \/ (Len(pdu) # 7 /\ Len(pdu) # 21)
     THEN send_error_response(st, conn_handle, ATT_OP_READ_BY_TYPE_REQ, 0,
                              BLE_ATT_ERR_INVALID_PDU)
     ELSE IF start_handle = 0 \/ start_handle > end_handle
     THEN send_error_response(st, conn_handle, ATT_OP_READ_BY_TYPE_REQ, start_handle,
                              BLE_ATT_ERR_INVALID_HANDLE)
     ELSE IF hs = <<>>
     THEN send_error_response(st, conn_handle, ATT_OP_READ_BY_TYPE_REQ, start_handle,
                              BLE_ATT_ERR_ATTR_NOT_FOUND)
     ELSE send_read_by_type_rsp(st, conn_handle, hs)

RECURSIVE GroupRecords(_, _, _, _, _, _, _)
GroupRecords(attrs, hs, i, rsp, uuid_size, pair_len, mtu) ==
  LET attr == attrs[hs[i]]
      uuid == IF Len(attr.value) >= uuid_size
              THEN Take(attr.value, uuid_size)
              ELSE attr.value \o [k \in 1..(uuid_size - Len(attr.value)) |-> 0]
  IN IF i > Len(hs) THEN rsp
     ELSE IF Len(rsp) + pair_len > mtu THEN rsp
     ELSE GroupRecords(attrs, hs, i + 1,
                       rsp \o U16LE(attr.handle) \o U16LE(attr.end_group_handle) \o uuid,
                       uuid_size, pair_len, mtu)

send_read_by_group_type_rsp(st, conn_handle, hs) ==
  LET uuid_size == U8(Len(st.attrs[hs[1]].value))
      pair_len == U8(4 + uuid_size)
      mtu == get_mtu(st.tconns, conn_handle)
  IN Done(st, send_pdu(st.tconns, conn_handle,
                       GroupRecords(st.attrs, hs, 1,
                                    <<ATT_OP_READ_BY_GROUP_TYPE_RSP, pair_len>>,
                                    uuid_size, pair_len, mtu)), {})

handle_read_by_group_type_req(st, conn_handle, pdu) ==
  LET start_handle == RdU16(pdu, 1)
      end_handle == RdU16(pdu, 3)
      type_uuid == RequestTypeUuid(pdu)
      hs == find_by_type(st.attrs, start_handle, end_handle, type_uuid)
  IN IF Len(pdu) < 7 \/ (Len(pdu) # 7 /\ Len(pdu) # 21)
     THEN send_error_response(st, conn_handle, ATT_OP_READ_BY_GROUP_TYPE_REQ, 0,
                              BLE_ATT_ERR_INVALID_PDU)
     ELSE IF ~UuidEq(type_uuid, UUID16(10240))
     THEN send_error_response(st, conn_handle, ATT_OP_READ_BY_GROUP_TYPE_REQ,
                              start_handle, BLE_ATT_ERR_UNSUPPORTED_GROUP_TYPE)
     ELSE IF hs = <<>>
     THEN send_error_response(st, conn_handle, ATT_OP_READ_BY_GROUP_TYPE_REQ,
                              start_handle, BLE_ATT_ERR_ATTR_NOT_FOUND)
     ELSE send_read_by_group_type_rsp(st, conn_handle, hs)

send_read_rsp(st, conn_handle, value) ==
  LET mtu == get_mtu(st.tconns, conn_handle)
      max_data == SizeTSub(mtu, 1)
      send_len == Min(Len(value), max_data)
  IN Done(st, send_pdu(st.tconns, conn_handle,
                       <<ATT_OP_READ_RSP>> \o Take(value, send_len)), {})

handle_read_req(st, conn_handle, pdu) ==
  LET handle == RdU16(pdu, 1)
      attr == st.attrs[handle]
      r == invoke_read_callback(attr, conn_handle, 0)
  IN IF Len(pdu) < 3
     THEN send_error_response(st, conn_handle, ATT_OP_READ_REQ, 0,
                              BLE_ATT_ERR_INVALID_PDU)
     ELSE IF handle \notin DOMAIN st.attrs
     THEN send_error_response(st, conn_handle, ATT_OP_READ_REQ, handle,
                              BLE_ATT_ERR_INVALID_HANDLE)
     ELSE IF ~HasBit(attr.permissions, ATT_PERM_READ)
     THEN send_error_response(st, conn_handle, ATT_OP_READ_REQ, handle,
                              BLE_ATT_ERR_READ_NOT_PERM)
     ELSE IF r.code # 0
     THEN send_error_response(st, conn_handle, ATT_OP_READ_REQ, handle, r.code)
     ELSE send_read_rsp(st, conn_handle, r.data)

handle_read_blob_req(st, conn_handle, pdu) ==
  LET handle == RdU16(pdu, 1)
      offset == RdU16(pdu, 3)
      attr == st.attrs[handle]
      r == invoke_read_callback(attr, conn_handle, offset)
  IN IF Len(pdu) < 5
     THEN send_error_response(st, conn_handle, ATT_OP_READ_BLOB_REQ, 0,
                              BLE_ATT_ERR_INVALID_PDU)
     ELSE IF handle \notin DOMAIN st.attrs
     THEN send_error_response(st, conn_handle, ATT_OP_READ_BLOB_REQ, handle,
                              BLE_ATT_ERR_INVALID_HANDLE)
     ELSE IF ~HasBit(attr.permissions, ATT_PERM_READ)
     THEN send_error_response(st, conn_handle, ATT_OP_READ_BLOB_REQ, handle,
                              BLE_ATT_ERR_READ_NOT_PERM)
     ELSE IF r.code # 0
     THEN send_error_response(st, conn_handle, ATT_OP_READ_BLOB_REQ, handle, r.code)
     ELSE IF offset >= Len(r.data)
     THEN send_error_response(st, conn_handle, ATT_OP_READ_BLOB_REQ, handle,
                              BLE_ATT_ERR_INVALID_OFFSET)
     ELSE send_read_rsp(st, conn_handle, Drop(r.data, offset))

(* The subscription kept once for the characteristic instead of once per  *)
(* connection.                                                            *)
handle_cccd_write_shared(conns, conn_handle, cccd_handle, value) ==
  [c \in DOMAIN conns |->
     [conns[c] EXCEPT !.cccd_values = Put(@, (cccd_handle + 65535) % 65536, value)]]

handle_cccd_write(conns, conn_handle, cccd_handle, value) ==
  LET char_handle == (cccd_handle + 65535) % 65536
  IN IF conn_handle \notin DOMAIN conns THEN conns
     ELSE [conns EXCEPT ![conn_handle].cccd_values = Put(@, char_handle, value)]

handle_write_req(st, conn_handle, pdu) ==
  LET handle == RdU16(pdu, 1)
      value == Drop(pdu, 3)
      attr == st.attrs[handle]
      conns == IF UuidEq(attr.uuid, UUID16(10498)) /\ Len(value) = 2
               THEN handle_cccd_write(st.conns, conn_handle, handle,
                                      value[1] + 256 * value[2])
               ELSE st.conns
      w == invoke_write_callback(attr, conn_handle, value)
      st1 == [st EXCEPT !.conns = conns, !.attrs[handle] = w.attr]
  IN IF Len(pdu) < 3
     THEN send_error_response(st, conn_handle, ATT_OP_WRITE_REQ, 0,
                              BLE_ATT_ERR_INVALID_PDU)
     ELSE IF handle \notin DOMAIN st.attrs
     THEN send_error_response(st, conn_handle, ATT_OP_WRITE_REQ, handle,
                              BLE_ATT_ERR_INVALID_HANDLE)
     ELSE IF ~HasBit(attr.permissions, ATT_PERM_WRITE)
     THEN send_error_response(st, conn_handle, ATT_OP_WRITE_REQ, handle,
                              BLE_ATT_ERR_WRITE_NOT_PERM)
     ELSE IF w.code # 0
     THEN [send_error_response(st1, conn_handle, ATT_OP_WRITE_REQ, handle, w.code)
             EXCEPT !.hooks = w.hooks, !.stored = w.stored]
     ELSE [Done(st1, send_pdu(st1.tconns, conn_handle, <<ATT_OP_WRITE_RSP>>), w.hooks)
             EXCEPT !.stored = w.stored]

handle_write_cmd(st, conn_handle, pdu) ==
  LET handle == RdU16(pdu, 1)
      value == Drop(pdu, 3)
      attr == st.attrs[handle]
      w == invoke_write_callback(attr, conn_handle, value)
      quiet == [sent |-> <<>>, ret |-> 0]
  IN IF Len(pdu) < 3 THEN Done(st, quiet, {})
     ELSE IF handle \notin DOMAIN st.attrs THEN Done(st, quiet, {})
     ELSE IF ~HasBit(attr.permissions, ATT_PERM_WRITE) THEN Done(st, quiet, {})
     ELSE [Done([st EXCEPT !.attrs[handle] = w.attr], quiet, w.hooks)
             EXCEPT !.stored = w.stored]

(* A handler that answers nothing.                                         *)
handle_silently(st, conn_handle, pdu) == Done(st, [sent |-> <<>>, ret |-> 0], {})

handle_prepare_write_req(st, conn_handle, pdu) ==
  send_error_response(st, conn_handle, ATT_OP_PREPARE_WRITE_REQ, 0,
                      BLE_ATT_ERR_REQ_NOT_SUPPORTED)

handle_execute_write_req(st, conn_handle, pdu) ==
  send_error_response(st, conn_handle, ATT_OP_EXECUTE_WRITE_REQ, 0,
                      BLE_ATT_ERR_REQ_NOT_SUPPORTED)

handle_signed_write_cmd(st, conn_handle, pdu) ==
  Done(st, [sent |-> <<>>, ret |-> 0], {})

RECURSIVE FindByTypeValueRecords(_, _, _, _, _)
FindByTypeValueRecords(attrs, hs, i, rsp, max_data) ==
  LET attr == attrs[hs[i]]
  IN IF i > Len(hs) THEN rsp
     ELSE IF Len(rsp) + 4 > max_data THEN rsp
     ELSE FindByTypeValueRecords(attrs, hs, i + 1,
                                 rsp \o U16LE(attr.handle) \o U16LE(attr.end_group_handle),
                                 max_data)

handle_find_by_type_value_req(st, conn_handle, pdu) ==
  LET start_handle == RdU16(pdu, 1)
      end_handle == RdU16(pdu, 3)
      type == RdU16(pdu, 5)
      value == Drop(pdu, 7)
      hs == find_by_type_value(st.attrs, start_handle, end_handle, UUID16(type), value)
      mtu == get_mtu(st.tconns, conn_handle)
      max_data == SizeTSub(mtu, 1)
  IN IF Len(pdu) < 7
     THEN send_error_response(st, conn_handle, ATT_OP_FIND_BY_TYPE_VALUE_REQ, 0,
                              BLE_ATT_ERR_INVALID_PDU)
     ELSE IF hs = <<>>
     THEN send_error_response(st, conn_handle, ATT_OP_FIND_BY_TYPE_VALUE_REQ,
                              start_handle, BLE_ATT_ERR_ATTR_NOT_FOUND)
     ELSE Done(st, send_pdu(st.tconns, conn_handle,
                            FindByTypeValueRecords(st.attrs, hs, 1,
                                                   <<ATT_OP_FIND_BY_TYPE_VALUE_RSP>>,
                                                   max_data)), {})

(* The dispatcher; on_transport_data_received drops an empty PDU.          *)
handle_att_pdu(st, conn_handle, pdu) ==
  LET opcode == At(pdu, 0)
  IN CASE opcode = ATT_OP_MTU_REQ -> handle_mtu_exchange_req(st, conn_handle, pdu)
       [] opcode = ATT_OP_FIND_INFO_REQ -> handle_find_info_req(st, conn_handle, pdu)
       [] opcode = ATT_OP_FIND_BY_TYPE_VALUE_REQ ->
            handle_find_by_type_value_req(st, conn_handle, pdu)
       [] opcode = ATT_OP_READ_BY_TYPE_REQ -> handle_read_by_type_req(st, conn_handle, pdu)
       [] opcode = ATT_OP_READ_REQ -> handle_read_req(st, conn_handle, pdu)
       [] opcode = ATT_OP_READ_BLOB_REQ -> handle_read_blob_req(st, conn_handle, pdu)
       [] opcode = ATT_OP_READ_BY_GROUP_TYPE_REQ ->
            handle_read_by_group_type_req(st, conn_handle, pdu)
       [] opcode = ATT_OP_WRITE_REQ -> handle_write_req(st, conn_handle, pdu)
       [] opcode = ATT_OP_WRITE_CMD -> handle_write_cmd(st, conn_handle, pdu)
       [] opcode = ATT_OP_PREPARE_WRITE_REQ ->
            handle_prepare_write_req(st, conn_handle, pdu)
       [] opcode = ATT_OP_EXECUTE_WRITE_REQ ->
            handle_execute_write_req(st, conn_handle, pdu)
       [] opcode = ATT_OP_SIGNED_WRITE_CMD -> handle_signed_write_cmd(st, conn_handle, pdu)
       [] opcode = ATT_OP_HANDLE_CONFIRM -> Done(st, [sent |-> <<>>, ret |-> 0], {})
       [] OTHER -> send_error_response(st, conn_handle, opcode, 0,
                                       BLE_ATT_ERR_REQ_NOT_SUPPORTED)

on_transport_data_received(st, conn_handle, pdu) ==
  IF Len(pdu) < 1 THEN Done(st, [sent |-> <<>>, ret |-> 0], {})
  ELSE handle_att_pdu(st, conn_handle, pdu)

(* notify and indicate: cccd_values[h] inserts a zero entry for a handle   *)
(* the map does not hold. The result is the connection table afterwards,   *)
(* the PDUs sent and the value returned.                                   *)
Emit(st, conn_handle, char_val_handle, data, opcode, bit) ==
  LET cv == st.conns[conn_handle].cccd_values
      cccd == IF char_val_handle \in DOMAIN cv THEN cv[char_val_handle] ELSE 0
      conns == [st.conns EXCEPT ![conn_handle].cccd_values = Put(@, char_val_handle, cccd)]
      tx == send_pdu(st.tconns, conn_handle,
                     <<opcode, Lo(char_val_handle), Hi(char_val_handle)>> \o data)
  IN IF conn_handle \notin DOMAIN st.conns
     THEN [conns |-> st.conns, sent |-> <<>>, ret |-> -1]
     ELSE IF ~HasBit(cccd, bit)
     THEN [conns |-> conns, sent |-> <<>>, ret |-> -1]
     ELSE [conns |-> conns, sent |-> tx.sent, ret |-> tx.ret]

notify(st, conn_handle, char_val_handle, data) ==
  Emit(st, conn_handle, char_val_handle, data, ATT_OP_HANDLE_NOTIFY, 1)

indicate(st, conn_handle, char_val_handle, data) ==
  Emit(st, conn_handle, char_val_handle, data, ATT_OP_HANDLE_INDICATE, 2)

(* The ConnectionState on_transport_connected stores.                      *)
NewConnectionState(conn_handle) ==
  [conn_handle |-> conn_handle, mtu |-> ATT_DEFAULT_MTU, cccd_values |-> <<>>,
   connected |-> TRUE]

(* The Connection accept_l2cap_connection stores.                          *)
NewConnection(conn_handle, peer_addr) ==
  [conn_handle |-> conn_handle, peer_addr |-> peer_addr, mtu |-> 23]

(* map.erase(k)                                                            *)
Erase(m, k) == [x \in (DOMAIN m) \ {k} |-> m[x]]

(* on_transport_connected stores a fresh ConnectionState under the        *)
(* handle; on_transport_disconnected erases the entry.                    *)
on_transport_connected(conns, conn_handle) ==
  Put(conns, conn_handle, NewConnectionState(conn_handle))

(* The entry left in the table when the link goes down.                   *)
on_transport_disconnected_keeps(conns, conn_handle) == conns

on_transport_disconnected(conns, conn_handle) == Erase(conns, conn_handle)

set_characteristic_value(attrs, char_value_handle, value) ==
  IF char_value_handle \notin DOMAIN attrs THEN [attrs |-> attrs, ret |-> -1]
  ELSE IF attrs[char_value_handle].type # "CHARACTERISTIC_VALUE"
  THEN [attrs |-> attrs, ret |-> -1]
  ELSE [attrs |-> [attrs EXCEPT ![char_value_handle].value = value], ret |-> 0]

---------------------------------------------------------------------------
(* The state.                                                              *)

VARIABLES
  attributes_,        \* BLEAttributeDatabase::attributes_
  next_handle_,       \* BLEAttributeDatabase::next_handle_
  services_,          \* BLEAttributeDatabase::services_
  running_,           \* BLEGATTServer::running_
  connections_,       \* BLEGATTServer::connections_
  bluez_connections_, \* BlueZTransport::connections_
  next_conn_handle_,  \* BlueZTransport::next_conn_handle_
  app_values,         \* the handles whose value set_characteristic_value stored last
  disc,               \* the primary-service discovery procedure of a client
  socket_rx,          \* per link, the PDUs in the socket that recv has not returned yet
  unconfirmed,        \* per link, whether an indication was sent and not confirmed since
  added_under,        \* per row, the service named by the add_* call that inserted it
  pc,                 \* per thread, where it is in the call it is making
  connections_mutex_, \* BLEGATTServer::connections_mutex_: the thread holding it
  call,               \* the last call of a function that keeps no state, and its result
  nimble_connections_,\* NimbleTransport::connections_
  nimble_reported,    \* the links NimbleTransport reported connected and not disconnected
  last                \* the operation that ran last, with what it sent and returned

vars == <<attributes_, next_handle_, services_, running_, connections_,
          bluez_connections_, next_conn_handle_, app_values, disc, socket_rx,
          unconfirmed, added_under, pc, connections_mutex_, call,
          nimble_connections_, nimble_reported, last>>

thread_vars == <<pc, connections_mutex_>>

nimble_vars == <<nimble_connections_, nimble_reported>>

io_vars == <<socket_rx, unconfirmed>>

db_vars == <<attributes_, next_handle_, services_>>

Db == [attributes_ |-> attributes_, next_handle_ |-> next_handle_,
       services_ |-> services_]

St == [attrs |-> attributes_, conns |-> connections_, tconns |-> bluez_connections_]

Idle == [op |-> "idle", conn |-> 0, pdu |-> <<>>, handle |-> 0, data |-> <<>>,
         ret |-> 0, sent |-> <<>>, hooks |-> {}]

(* A thread that is in no call of the library.                             *)
ThreadIdle == [at |-> "idle", conn |-> 0, handle |-> 0, pdu |-> <<>>, raced |-> {},
               tx |-> <<>>]

NoCall == [fn |-> "none", arg |-> <<>>, ret |-> 0]

DiscIdle == [state |-> "idle", conn |-> 0, start |-> 0, found |-> <<>>]

(* The width of next_conn_handle_ is 16 bits; the model wraps it sooner so *)
(* that a connection handle is handed out again.                           *)
ConnHandleWidth == 3

ConnHandles == 0..(ConnHandleWidth - 1)

(* The state after construction, with the call of a stateless function    *)
(* that is about to be made.                                               *)
Constructed(pending) ==
  /\ attributes_ = <<>>
  /\ next_handle_ = 1
  /\ services_ = <<>>
  /\ running_ = FALSE
  /\ connections_ = <<>>
  /\ bluez_connections_ = <<>>
  /\ next_conn_handle_ = 1
  /\ app_values = {}
  /\ disc = DiscIdle
  /\ socket_rx = <<>>
  /\ unconfirmed = <<>>
  /\ added_under = <<>>
  /\ pc = [sm |-> ThreadIdle, app |-> ThreadIdle]
  /\ connections_mutex_ = "free"
  /\ call = pending
  /\ nimble_connections_ = <<>>
  /\ nimble_reported = {}
  /\ last = Idle

Init == Constructed(NoCall)

---------------------------------------------------------------------------
(* Setup: the application fills the database before it calls run().        *)

SetDb(db) ==
  /\ attributes_' = db.attributes_
  /\ next_handle_' = db.next_handle_
  /\ services_' = db.services_

Quiet == last = Idle

(* The service whose loop of register_services inserted row h: the last    *)
(* service row at or before it.                                            *)
EnclosingService(attrs, h) ==
  With({s \in DOMAIN attrs : /\ s <= h
                             /\ attrs[s].type \in {"PRIMARY_SERVICE",
                                                    "SECONDARY_SERVICE"}},
       LAMBDA below : IF below = {} THEN 0
                      ELSE CHOOSE s \in below : \A t \in below : t <= s)

RegisterServices(services) ==
  /\ Quiet
  /\ ~running_
  /\ attributes_ = <<>>
  /\ LET r == register_services(Db, services)
     IN /\ SetDb(r.db)
        /\ added_under' = [h \in DOMAIN r.db.attributes_ |->
                             EnclosingService(r.db.attributes_, h)]
        /\ last' = [Idle EXCEPT !.op = "register_services", !.ret = r.ret]
  /\ UNCHANGED <<call, nimble_vars, thread_vars, running_, connections_, bluez_connections_, next_conn_handle_,
                 app_values, disc, io_vars>>

(* run() sets the flag; the loop it enters is the accept and receive       *)
(* actions below, enabled while the flag is set.                           *)
Run ==
  /\ Quiet
  /\ ~running_
  /\ attributes_ # <<>>
  /\ running_' = TRUE
  /\ last' = [Idle EXCEPT !.op = "run"]
  /\ UNCHANGED <<call, nimble_vars, thread_vars, db_vars, connections_, bluez_connections_, next_conn_handle_,
                 app_values, disc, io_vars, added_under>>

(* accept_l2cap_connection with a pending connection of peer_addr, and the *)
(* on_transport_connected it calls. A peer holds one link at a time.       *)
AcceptConnection(peer_addr) ==
  /\ Quiet
  /\ running_
  /\ \A c \in DOMAIN bluez_connections_ : bluez_connections_[c].peer_addr # peer_addr
  /\ LET conn_handle == next_conn_handle_
     IN /\ next_conn_handle_' = (next_conn_handle_ + 1) % ConnHandleWidth
        /\ bluez_connections_' =
             Put(bluez_connections_, conn_handle, NewConnection(conn_handle, peer_addr))
        /\ connections_' = on_transport_connected(connections_, conn_handle)
        /\ socket_rx' = Put(socket_rx, conn_handle, <<>>)
        /\ unconfirmed' = Put(unconfirmed, conn_handle, FALSE)
        /\ last' = [Idle EXCEPT !.op = "connected", !.conn = conn_handle]
  /\ UNCHANGED <<call, nimble_vars, thread_vars, db_vars, running_, app_values, disc, added_under>>

(* BlueZTransport::disconnect (the peer closed the socket, or the          *)
(* application called disconnect) and the on_transport_disconnected it     *)
(* calls.                                                                  *)
Disconnect(conn_handle) ==
  /\ Quiet
  /\ conn_handle \in DOMAIN bluez_connections_
  /\ bluez_connections_' = Erase(bluez_connections_, conn_handle)
  /\ connections_' = on_transport_disconnected(connections_, conn_handle)
  /\ disc' = IF disc.state # "idle" /\ disc.conn = conn_handle THEN DiscIdle ELSE disc
  /\ socket_rx' = Erase(socket_rx, conn_handle)
  /\ unconfirmed' = Erase(unconfirmed, conn_handle)
  /\ last' = [Idle EXCEPT !.op = "disconnected", !.conn = conn_handle]
  /\ UNCHANGED <<call, nimble_vars, thread_vars, db_vars, running_, next_conn_handle_, app_values, added_under>>

(* process_events delivers one PDU of a connection to                      *)
(* on_transport_data_received, which runs the handler to completion.       *)
Handled(op, conn_handle, pdu, r) ==
  /\ attributes_' = r.st.attrs
  /\ connections_' = r.st.conns
  /\ bluez_connections_' = r.st.tconns
  /\ app_values' = app_values \ r.stored
  /\ unconfirmed' = IF Len(pdu) >= 1 /\ pdu[1] = ATT_OP_HANDLE_CONFIRM
                    THEN [unconfirmed EXCEPT ![conn_handle] = FALSE]
                    ELSE unconfirmed
  /\ last' = [Idle EXCEPT !.op = op, !.conn = conn_handle, !.pdu = pdu,
                          !.handle = IF Len(pdu) >= 3 THEN RdU16(pdu, 1) ELSE 0,
                          !.sent = r.sent, !.hooks = r.hooks]

DataReceived(op, conn_handle, pdu) ==
  /\ Quiet
  /\ running_
  /\ conn_handle \in DOMAIN bluez_connections_
  /\ Handled(op, conn_handle, pdu, on_transport_data_received(St, conn_handle, pdu))
  /\ UNCHANGED <<call, nimble_vars, thread_vars, next_handle_, services_, running_, next_conn_handle_, disc,
                 socket_rx, added_under>>

(* The caller of the last operation has its result: the event loop of      *)
(* run() goes round, or the API call returns.                              *)
Return ==
  /\ ~Quiet
  /\ last' = Idle
  /\ UNCHANGED <<call, nimble_vars, thread_vars, db_vars, running_, connections_, bluez_connections_,
                 next_conn_handle_, app_values, disc, io_vars, added_under>>

---------------------------------------------------------------------------
(* The requests a client sends, one action per opcode.                     *)

MtuReq(conn_handle, client_mtu) ==
  DataReceived("mtu_req", conn_handle, <<ATT_OP_MTU_REQ>> \o U16LE(client_mtu))

FindInfoReq(conn_handle, start_handle, end_handle) ==
  DataReceived("find_info_req", conn_handle,
               <<ATT_OP_FIND_INFO_REQ>> \o U16LE(start_handle) \o U16LE(end_handle))

FindByTypeValueReq(conn_handle, start_handle, end_handle, type, value) ==
  DataReceived("find_by_type_value_req", conn_handle,
               <<ATT_OP_FIND_BY_TYPE_VALUE_REQ>> \o U16LE(start_handle)
                 \o U16LE(end_handle) \o U16LE(type) \o value)

ReadByTypeReq(conn_handle, start_handle, end_handle, type) ==
  DataReceived("read_by_type_req", conn_handle,
               <<ATT_OP_READ_BY_TYPE_REQ>> \o U16LE(start_handle)
                 \o U16LE(end_handle) \o U16LE(type))

ReadReq(conn_handle, handle) ==
  DataReceived("read_req", conn_handle, <<ATT_OP_READ_REQ>> \o U16LE(handle))

ReadBlobReq(conn_handle, handle, offset) ==
  DataReceived("read_blob_req", conn_handle,
               <<ATT_OP_READ_BLOB_REQ>> \o U16LE(handle) \o U16LE(offset))

ReadByGroupTypeReq(conn_handle, start_handle, end_handle, type) ==
  DataReceived("read_by_group_type_req", conn_handle,
               <<ATT_OP_READ_BY_GROUP_TYPE_REQ>> \o U16LE(start_handle)
                 \o U16LE(end_handle) \o U16LE(type))

WriteReq(conn_handle, handle, value) ==
  DataReceived("write_req", conn_handle, <<ATT_OP_WRITE_REQ>> \o U16LE(handle) \o value)

WriteCmd(conn_handle, handle, value) ==
  DataReceived("write_cmd", conn_handle, <<ATT_OP_WRITE_CMD>> \o U16LE(handle) \o value)

(* Prepare Write, Execute Write, Signed Write, Handle Value Confirmation,  *)
(* an opcode the server does not know, and PDUs too short for their opcode.*)
OtherPdu(conn_handle, pdu) == DataReceived("other", conn_handle, pdu)

---------------------------------------------------------------------------
(* The calls of the application while the server runs.                     *)

SetCharacteristicValue(char_value_handle, value) ==
  /\ Quiet
  /\ attributes_ # <<>>
  /\ LET r == set_characteristic_value(attributes_, char_value_handle, value)
     IN /\ attributes_' = r.attrs
        /\ app_values' = IF r.ret = 0 THEN app_values \cup {char_value_handle}
                         ELSE app_values
        /\ last' = [Idle EXCEPT !.op = "set_characteristic_value",
                                !.handle = char_value_handle, !.data = value,
                                !.ret = r.ret]
  /\ UNCHANGED <<call, nimble_vars, thread_vars, next_handle_, services_, running_, connections_, bluez_connections_,
                 next_conn_handle_, disc, io_vars, added_under>>

Notify(conn_handle, char_val_handle, data) ==
  /\ Quiet
  /\ attributes_ # <<>>
  /\ LET r == notify(St, conn_handle, char_val_handle, data)
     IN /\ connections_' = r.conns
        /\ last' = [Idle EXCEPT !.op = "notify", !.conn = conn_handle,
                                !.handle = char_val_handle, !.data = data,
                                !.ret = r.ret, !.sent = r.sent]
  /\ UNCHANGED <<call, nimble_vars, thread_vars, db_vars, running_, bluez_connections_, next_conn_handle_,
                 app_values, disc, io_vars, added_under>>

Indicate(conn_handle, char_val_handle, data) ==
  /\ Quiet
  /\ attributes_ # <<>>
  /\ LET r == indicate(St, conn_handle, char_val_handle, data)
     IN /\ connections_' = r.conns
        /\ unconfirmed' = IF r.sent # <<>>
                          THEN [unconfirmed EXCEPT ![conn_handle] = TRUE]
                          ELSE unconfirmed
        /\ last' = [Idle EXCEPT !.op = "indicate", !.conn = conn_handle,
                                !.handle = char_val_handle, !.data = data,
                                !.ret = r.ret, !.sent = r.sent]
  /\ UNCHANGED <<call, nimble_vars, thread_vars, db_vars, running_, bluez_connections_, next_conn_handle_,
                 app_values, disc, socket_rx, added_under>>

---------------------------------------------------------------------------
(* The service definitions the application registers, and the inputs of    *)
(* the requests.                                                           *)

CharDef(uuid, flags, cb) ==
  [uuid |-> uuid, flags |-> flags, access_cb |-> cb, descriptors |-> <<>>]

ServiceDef(type, uuid, chars) ==
  [type |-> type, uuid |-> uuid, included_services |-> <<>>, characteristics |-> chars]

VendorUuid == UUID128([i \in 1..16 |-> 160 + i])

(* A battery-like service: a readable, writable, notifying and indicating  *)
(* level (rows 2, 3 and its CCCD 4), a write-only control point (5, 6) and *)
(* a read-only name served by an access callback (7, 8).                   *)
SensorTree ==
  << ServiceDef("PRIMARY", UUID16(6159),
       << CharDef(UUID16(10777),
                  GATT_CHR_F_READ + GATT_CHR_F_WRITE + GATT_CHR_F_NOTIFY
                    + GATT_CHR_F_INDICATE, NoCb),
          CharDef(UUID16(10778), GATT_CHR_F_WRITE, NoCb),
          CharDef(UUID16(10793), GATT_CHR_F_READ, ReadOnlyCb(<<100>>)) >>) >>

(* A vendor service whose one characteristic is readable and writable and  *)
(* served by an access callback (rows 1, 2, 3).                            *)
VendorTree ==
  << ServiceDef("PRIMARY", VendorUuid,
       << CharDef(UUID16(10779), GATT_CHR_F_READ + GATT_CHR_F_WRITE,
                  ReadOnlyCb(<<7, 7>>)) >>) >>

Trees == {SensorTree, VendorTree}

LinkPeers == {"AA:AA:AA:AA:AA:AA"}

ClientMtus == {2, 30, 600}

Ranges == {<<1, 65535>>, <<0, 65535>>, <<5, 4>>, <<4, 8>>, <<9, 65535>>}

AttributeTypes == {10243, 10777, 10778, 10793, 10498}

GroupTypes == {10240, 10241, 10243}

ServiceValues == {U16LE(6159), <<1>>}

SetValues == {<<>>, <<100>>, Bytes(25)}

WriteValues == {<<1, 0>>}

Offsets == {0, 1, 13, 25}

SetHandles == {1, 3}

OtherPdus ==
  { <<ATT_OP_PREPARE_WRITE_REQ, 3, 0, 0, 0, 1>>, <<ATT_OP_EXECUTE_WRITE_REQ, 0>>,
    <<ATT_OP_SIGNED_WRITE_CMD, 3, 0, 1>>, <<ATT_OP_HANDLE_CONFIRM>>, <<99>>,
    <<ATT_OP_MTU_REQ>>, <<ATT_OP_FIND_INFO_REQ, 1>>,
    <<ATT_OP_FIND_BY_TYPE_VALUE_REQ, 1, 0>>, <<ATT_OP_READ_BY_TYPE_REQ, 1, 0>>,
    <<ATT_OP_READ_REQ>>, <<ATT_OP_READ_BLOB_REQ, 3, 0>>,
    <<ATT_OP_READ_BY_GROUP_TYPE_REQ, 1, 0, 255, 255>>, <<ATT_OP_WRITE_REQ>>,
    <<ATT_OP_WRITE_CMD>> }

(* The handles a client tries: every row, and one on either side.          *)
ReqHandles == (DOMAIN attributes_) \cup {0, next_handle_}

ValueHandles == {h \in DOMAIN attributes_ : attributes_[h].type = "CHARACTERISTIC_VALUE"}

Links == DOMAIN bluez_connections_

---------------------------------------------------------------------------
(* One client on one link, sending every kind of request, while the        *)
(* application stores values.                                              *)

Next ==
  \/ \E services \in Trees : RegisterServices(services)
  \/ Run
  \/ \E peer_addr \in LinkPeers : AcceptConnection(peer_addr)
  \/ \E c \in Links : Disconnect(c)
  \/ \E c \in Links, m \in ClientMtus : MtuReq(c, m)
  \/ \E c \in Links, r \in Ranges : FindInfoReq(c, r[1], r[2])
  \/ \E c \in Links, r \in Ranges, v \in ServiceValues :
       FindByTypeValueReq(c, r[1], r[2], 10240, v)
  \/ \E c \in Links, r \in Ranges, t \in AttributeTypes : ReadByTypeReq(c, r[1], r[2], t)
  \/ \E c \in Links, h \in ReqHandles : ReadReq(c, h)
  \/ \E c \in Links, h \in ValueHandles \cup {next_handle_}, k \in Offsets :
       ReadBlobReq(c, h, k)
  \/ \E c \in Links, r \in Ranges, t \in GroupTypes : ReadByGroupTypeReq(c, r[1], r[2], t)
  \/ \E c \in Links, h \in ReqHandles, v \in WriteValues : WriteReq(c, h, v)
  \/ \E c \in Links, h \in ReqHandles, v \in WriteValues : WriteCmd(c, h, v)
  \/ \E c \in Links, pdu \in OtherPdus : OtherPdu(c, pdu)
  \/ \E h \in SetHandles, v \in SetValues : SetCharacteristicValue(h, v)
  \/ Return

Spec == Init /\ [][Next]_vars

---------------------------------------------------------------------------
(* Two clients, each subscribing and unsubscribing, while the application  *)
(* notifies and indicates; links come and go and handles are reused.       *)

SubPeers == {"AA:AA:AA:AA:AA:AA", "BB:BB:BB:BB:BB:BB"}

SubMtus == {600}

(* 01 00, 02 00, 00 00, and a value one byte long.                         *)
CccdValues == {<<1, 0>>, <<2, 0>>, <<0, 0>>, <<0>>}

CccdHandles == {h \in DOMAIN attributes_ : UuidEq(attributes_[h].uuid, UUID_CCCD)}

(* The level, which has a CCCD, and the control point, which has none.     *)
NotifyHandles == {3, 6}

NotifyData == {<<90>>}

NextSub ==
  \/ \E services \in {SensorTree} : RegisterServices(services)
  \/ Run
  \/ \E peer_addr \in SubPeers : AcceptConnection(peer_addr)
  \/ \E c \in Links : Disconnect(c)
  \/ \E c \in Links, m \in SubMtus : MtuReq(c, m)
  \/ \E c \in Links, h \in CccdHandles, v \in CccdValues : WriteReq(c, h, v)
  \/ \E c \in Links, h \in CccdHandles, v \in {<<0, 0>>} : WriteCmd(c, h, v)
  \/ \E c \in ConnHandles, h \in NotifyHandles, d \in NotifyData : Notify(c, h, d)
  \/ \E c \in ConnHandles, h \in NotifyHandles, d \in NotifyData : Indicate(c, h, d)
  \/ Return

SpecSub == Init /\ [][NextSub]_vars

---------------------------------------------------------------------------
(* The database built call by call, and a client that discovers the        *)
(* primary services with Read By Group Type requests.                      *)

(* The rows the setup calls may fill.                                      *)
MaxRows == 5

ServiceUuids == {UUID16(6159), VendorUuid}

ServiceHandles ==
  {h \in DOMAIN attributes_ :
     attributes_[h].type \in {"PRIMARY_SERVICE", "SECONDARY_SERVICE"}}

(* An add_* call: the database it leaves, the value it returns, the        *)
(* service it named (a new service row names itself) and its arguments.    *)
Setup(op, service_handle, args, r) ==
  /\ SetDb(r.db)
  /\ added_under' = [h \in DOMAIN r.db.attributes_ |->
                       IF h \in DOMAIN added_under THEN added_under[h]
                       ELSE IF service_handle = 0 THEN h ELSE service_handle]
  /\ last' = [Idle EXCEPT !.op = op, !.handle = service_handle, !.data = args,
                          !.ret = r.ret]
  /\ UNCHANGED <<call, nimble_vars, thread_vars, running_, connections_, bluez_connections_, next_conn_handle_,
                 app_values, disc, io_vars>>

(* The handles the top of the handle space may still hold.                 *)
MaxLeft == 3

(* A call that takes n handles is tried while the database is small, and   *)
(* again when the handle space is about to run out.                        *)
CanAdd(n) ==
  \/ next_handle_ + n - 1 <= MaxRows
  \/ next_handle_ >= HANDLE_LIMIT - MaxLeft

AddPrimaryService(uuid) ==
  /\ Quiet
  /\ ~running_
  /\ CanAdd(1)
  /\ Setup("add_primary_service", 0, <<>>, add_primary_service(Db, uuid))

AddSecondaryService(uuid) ==
  /\ Quiet
  /\ ~running_
  /\ CanAdd(1)
  /\ Setup("add_secondary_service", 0, <<>>, add_secondary_service(Db, uuid))

AddCharacteristic(service_handle, uuid, properties, permissions) ==
  /\ Quiet
  /\ ~running_
  /\ CanAdd(2)
  /\ Setup("add_characteristic", service_handle, <<properties>>,
           add_characteristic(Db, service_handle, uuid, properties, permissions))

AddInclude(service_handle, included_service_handle) ==
  /\ Quiet
  /\ ~running_
  /\ CanAdd(1)
  /\ Setup("add_include", service_handle, <<included_service_handle>>,
           add_include(Db, service_handle, included_service_handle))

AddDescriptor(char_handle, uuid, permissions) ==
  /\ Quiet
  /\ ~running_
  /\ CanAdd(1)
  /\ Setup("add_descriptor", added_under[char_handle], <<char_handle>>,
           add_descriptor(Db, char_handle, uuid, permissions))

(* n calls of add_include in a row.                                        *)
RECURSIVE AddIncludes(_, _, _, _)
AddIncludes(db, service_handle, included_service_handle, n) ==
  IF n = 0 THEN db
  ELSE IF n = 1 THEN add_include(db, service_handle, included_service_handle).db
  ELSE With(AddIncludes(db, service_handle, included_service_handle, n \div 2),
            LAMBDA half :
         IF half.next_handle_ = 0 THEN half
         ELSE AddIncludes(half, service_handle, included_service_handle, n - n \div 2))

(* The application, with one service in the database, calls add_include    *)
(* for an included service that does not exist until the handle space has  *)
(* `left` handles left: every such call takes a handle and inserts nothing.*)
ExhaustHandles(service_handle, left) ==
  /\ Quiet
  /\ ~running_
  /\ DOMAIN attributes_ = {service_handle}
  /\ next_handle_ = service_handle + 1
  /\ Setup("add_includes", service_handle, <<0>>,
           [db |-> AddIncludes(Db, service_handle, 0,
                               HANDLE_LIMIT - left - next_handle_),
            ret |-> 0])

(* The records of a Read By Group Type Response: handle, group end, UUID.  *)
GroupRecordsOf(rsp) ==
  IF Len(rsp) < 2 \/ rsp[2] < 4 THEN <<>>
  ELSE [i \in 1..((Len(rsp) - 2) \div rsp[2]) |->
          [handle |-> RdU16(rsp, 2 + (i - 1) * rsp[2]),
           end_group_handle |-> RdU16(rsp, 4 + (i - 1) * rsp[2]),
           uuid |-> SubSeq(rsp, 7 + (i - 1) * rsp[2], 2 + i * rsp[2])]]

(* The client after the answer to its request: it stops on an Error        *)
(* Response, on an answer without a record and on a group that ends at     *)
(* 0xFFFF, and otherwise asks on from the end of the last group plus one.  *)
Discovered(d, sent) ==
  With(IF sent = <<>> \/ sent[1][1] # ATT_OP_READ_BY_GROUP_TYPE_RSP THEN <<>>
       ELSE GroupRecordsOf(sent[1]), LAMBDA recs :
    IF recs = <<>> THEN [d EXCEPT !.state = "done"]
    ELSE [d EXCEPT !.found = @ \o recs,
                   !.state = IF recs[Len(recs)].end_group_handle = 65535
                             THEN "done" ELSE "active",
                   !.start = IF recs[Len(recs)].end_group_handle = 65535
                             THEN @ ELSE recs[Len(recs)].end_group_handle + 1])

Discover(conn_handle, d, r) ==
  /\ Handled("discover", conn_handle,
             <<ATT_OP_READ_BY_GROUP_TYPE_REQ>> \o U16LE(d.start) \o U16LE(65535)
               \o U16LE(10240), r)
  /\ disc' = Discovered(d, r.sent)
  /\ UNCHANGED <<call, nimble_vars, thread_vars, next_handle_, services_, running_, next_conn_handle_, socket_rx,
                 added_under>>

DiscoverRequest(conn_handle, d) ==
  Discover(conn_handle, d,
           on_transport_data_received(St, conn_handle,
             <<ATT_OP_READ_BY_GROUP_TYPE_REQ>> \o U16LE(d.start) \o U16LE(65535)
               \o U16LE(10240)))

(* The first request of a discovery, from handle 1.                        *)
DiscoverStart(conn_handle) ==
  /\ Quiet
  /\ running_
  /\ conn_handle \in Links
  /\ disc.state = "idle"
  /\ DiscoverRequest(conn_handle, [state |-> "active", conn |-> conn_handle,
                                   start |-> 1, found |-> <<>>])

DiscoverStep ==
  /\ Quiet
  /\ running_
  /\ disc.state = "active"
  /\ disc.conn \in Links
  /\ DiscoverRequest(disc.conn, disc)

NextDisc ==
  \/ \E uuid \in ServiceUuids : AddPrimaryService(uuid)
  \/ \E uuid \in {UUID16(6154)} : AddSecondaryService(uuid)
  \/ \E s \in ServiceHandles : AddCharacteristic(s, UUID16(10777), GATT_CHR_PROP_READ,
                                                 ATT_PERM_READ)
  \/ Run
  \/ \E peer_addr \in LinkPeers : AcceptConnection(peer_addr)
  \/ \E c \in Links : Disconnect(c)
  \/ \E c \in Links : DiscoverStart(c)
  \/ DiscoverStep
  \/ Return

SpecDisc == Init /\ [][NextDisc]_vars

---------------------------------------------------------------------------
(* What the properties below read off a state.                             *)

Readable(h) == HasBit(attributes_[h].permissions, ATT_PERM_READ)

Writable(h) == HasBit(attributes_[h].permissions, ATT_PERM_WRITE)

ErrorRsp(opcode, h, code) == <<ATT_OP_ERROR, opcode, Lo(h), Hi(h), code>>

(* The MTU of the connection of the last operation.                        *)
LastMtu == connections_[last.conn].mtu

(* The offset a Read Blob Request carries.                                 *)
LastOffset == RdU16(last.pdu, 3)

(* The records of a Read By Type Response: handle and value.               *)
TypeRecordsOf(rsp) ==
  IF Len(rsp) < 2 \/ rsp[2] < 2 THEN <<>>
  ELSE [i \in 1..((Len(rsp) - 2) \div rsp[2]) |->
          [handle |-> RdU16(rsp, 2 + (i - 1) * rsp[2]),
           value |-> SubSeq(rsp, 5 + (i - 1) * rsp[2], 2 + i * rsp[2])]]

---------------------------------------------------------------------------
(* C1: a Read Request for a readable characteristic value without a read   *)
(* hook, stored last by set_characteristic_value, is answered with a Read  *)
(* Response carrying the first min(len(v), mtu - 1) bytes of the value,    *)
(* the empty value included, and never with an Error Response.             *)
C1_ReadReturnsStoredValue ==
  (/\ last.op = "read_req"
   /\ last.handle \in app_values
   /\ Readable(last.handle)
   /\ attributes_[last.handle].read_cb = NoCb)
  => last.sent = << <<ATT_OP_READ_RSP>>
                      \o Take(attributes_[last.handle].value,
                              Min(Len(attributes_[last.handle].value), LastMtu - 1)) >>

(* C2: a Read Blob Request at offset k for a readable row with a static    *)
(* value v is answered with v[k..] cut to mtu - 1 bytes when k < len(v),   *)
(* and with the Error Response InvalidOffset when k >= len(v).             *)
C2_ReadBlobReturnsSuffix ==
  (/\ last.op = "read_blob_req"
   /\ last.handle \in DOMAIN attributes_
   /\ Readable(last.handle)
   /\ attributes_[last.handle].read_cb = NoCb)
  => IF LastOffset < Len(attributes_[last.handle].value)
     THEN /\ Len(last.sent) = 1
          /\ last.sent[1][1] # ATT_OP_ERROR
          /\ Tail(last.sent[1]) =
               Take(Drop(attributes_[last.handle].value, LastOffset), LastMtu - 1)
     ELSE last.sent = << ErrorRsp(ATT_OP_READ_BLOB_REQ, last.handle,
                                  BLE_ATT_ERR_INVALID_OFFSET) >>

(* C3: a finished discovery has received every primary service of the      *)
(* database exactly once, in ascending handle order.                      *)
C3_DiscoveryFindsEveryService ==
  disc.state = "done"
  => [i \in DOMAIN disc.found |-> disc.found[i].handle]
       = Ascending({h \in DOMAIN attributes_ :
                      attributes_[h].type = "PRIMARY_SERVICE"})

(* What notify and indicate would do for a connection and a handle in a    *)
(* state: the PDUs submitted and the value returned.                       *)
NotifyIn(attrs, conns, tconns, c, h) ==
  With(notify([attrs |-> attrs, conns |-> conns, tconns |-> tconns], c, h, <<90>>),
       LAMBDA r : [sent |-> r.sent, ret |-> r.ret])

IndicateIn(attrs, conns, tconns, c, h) ==
  With(indicate([attrs |-> attrs, conns |-> conns, tconns |-> tconns], c, h, <<90>>),
       LAMBDA r : [sent |-> r.sent, ret |-> r.ret])

NotifyNow(c, h) == NotifyIn(attributes_, connections_, bluez_connections_, c, h)

IndicateNow(c, h) == IndicateIn(attributes_, connections_, bluez_connections_, c, h)

Refused == [sent |-> <<>>, ret |-> -1]

(* The value a Write Request carries, and whether bit 0 or bit 1 of its    *)
(* first byte is set.                                                      *)
LastValue == Drop(last.pdu, 3)

ValueBit(v, bit) == Len(v) >= 1 /\ HasBit(v[1], bit)

(* C4: after a Write Request to the CCCD of h on connection c is answered  *)
(* with a Write Response, notify(c, h, ..) submits a 0x1B PDU exactly as   *)
(* bit 0 of the value written says, and indicate(c, h, ..) a 0x1D PDU as   *)
(* bit 1 says: 01 00 enables notify, 02 00 enables indicate and not        *)
(* notify, 00 00 disables both, and a PDU is submitted only if the bit of  *)
(* the value written last is set.                                          *)
C4_SubscriptionFollowsLastWrite ==
  (/\ last.op = "write_req"
   /\ last.handle \in CccdHandles
   /\ last.sent = << <<ATT_OP_WRITE_RSP>> >>)
  => /\ NotifyNow(last.conn, last.handle - 1) =
          IF ValueBit(LastValue, 1)
          THEN [sent |-> << <<ATT_OP_HANDLE_NOTIFY>> \o U16LE(last.handle - 1)
                              \o <<90>> >>, ret |-> 4]
          ELSE Refused
     /\ IndicateNow(last.conn, last.handle - 1) =
          IF ValueBit(LastValue, 2)
          THEN [sent |-> << <<ATT_OP_HANDLE_INDICATE>> \o U16LE(last.handle - 1)
                              \o <<90>> >>, ret |-> 4]
          ELSE Refused

(* C5: the server holds state for a connection exactly while the link is   *)
(* up: after disconnected(c) the table has no entry for c and notify and   *)
(* indicate on c fail and submit nothing; after connected(c) the MTU is    *)
(* 23, the subscription map is empty and notify and indicate fail.         *)
C5_ConnectionStateLifetime ==
  /\ DOMAIN connections_ = DOMAIN bluez_connections_
  /\ last.op = "disconnected" => last.conn \notin DOMAIN connections_
  /\ \A c \in ConnHandles \ DOMAIN bluez_connections_, h \in NotifyHandles :
       attributes_ # <<>> => NotifyNow(c, h) = Refused /\ IndicateNow(c, h) = Refused
  /\ (last.op \in {"notify", "indicate"} /\ last.conn \notin DOMAIN bluez_connections_)
       => last.ret = -1 /\ last.sent = <<>>
  /\ last.op = "connected"
       => /\ connections_[last.conn].mtu = 23
          /\ connections_[last.conn].cccd_values = <<>>
          /\ get_mtu(bluez_connections_, last.conn) = 23
          /\ \A h \in NotifyHandles :
               NotifyNow(last.conn, h) = Refused /\ IndicateNow(last.conn, h) = Refused

(* A handle is connected again after a client wrote a CCCD.                *)
C5_Witness ==
  /\ last.op = "connected"
  /\ last.conn = 1
  /\ next_conn_handle_ = 2
  /\ attributes_[4].value = <<1, 0>>
  /\ DOMAIN connections_ = {1}

(* C6: a Write Request on one connection leaves what notify and indicate   *)
(* do on every other connection, for every handle, as it was.              *)
C6_SubscriptionsPerConnection ==
  [][last'.op = "write_req"
     => \A b \in DOMAIN connections_ \ {last'.conn}, h \in NotifyHandles :
          /\ NotifyIn(attributes_', connections_', bluez_connections_', b, h)
               = NotifyNow(b, h)
          /\ IndicateIn(attributes_', connections_', bluez_connections_', b, h)
               = IndicateNow(b, h)]_vars

(* One client has just subscribed to indications while the other client    *)
(* stays subscribed to notifications of the same characteristic.           *)
C6_Witness ==
  /\ last.op = "write_req"
  /\ last.sent = << <<ATT_OP_WRITE_RSP>> >>
  /\ LastValue = <<2, 0>>
  /\ \E b \in DOMAIN connections_ \ {last.conn} :
       /\ NotifyNow(b, last.handle - 1).ret = 4
       /\ NotifyNow(last.conn, last.handle - 1) = Refused
       /\ IndicateNow(last.conn, last.handle - 1).ret = 4

(* C7: the MTU the server stores for a connection, and the MTU the         *)
(* transport returns for it, is at least 23 and at most 517.               *)
C7_MtuInRange ==
  \A c \in DOMAIN connections_ :
    /\ connections_[c].mtu >= 23
    /\ connections_[c].mtu <= 517
    /\ get_mtu(bluez_connections_, c) >= 23
    /\ get_mtu(bluez_connections_, c) <= 517

(* C8: the MTU of a connection starts at 23, and an MTU Exchange Request   *)
(* never lowers it; stated for the requests whose client MTU is 23 or      *)
(* more.                                                                   *)
C8_MtuNeverDecreases ==
  [][/\ last'.op = "connected" => connections_'[last'.conn].mtu = 23
     /\ (last'.op = "mtu_req" /\ Len(last'.pdu) = 3 /\ RdU16(last'.pdu, 1) >= 23)
          => connections_'[last'.conn].mtu >= connections_[last'.conn].mtu]_vars

(* C9: every PDU sent in answer to a request is no longer than the MTU of  *)
(* the connection when it is sent.                                         *)
C9_ResponseFitsMtu ==
  (last.conn \in DOMAIN bluez_connections_ /\ last.op \notin {"notify", "indicate"})
  => \A i \in DOMAIN last.sent :
       Len(last.sent[i]) <= get_mtu(bluez_connections_, last.conn)

(* C10: a Read or Read Blob Request for a row without the read bit is      *)
(* answered ReadNotPermitted, no Read By Type Response carries the value   *)
(* of such a row, and a Write Request or Write Command for a row without   *)
(* the write bit neither changes its value nor invokes its write hook.     *)
C10_PermissionsGate ==
  [][/\ (/\ last'.op \in {"read_req", "read_blob_req"}
         /\ last'.handle \in DOMAIN attributes_
         /\ ~Readable(last'.handle)
         /\ Len(last'.pdu) >= (IF last'.op = "read_req" THEN 3 ELSE 5))
          => last'.sent = << ErrorRsp(last'.pdu[1], last'.handle,
                                      BLE_ATT_ERR_READ_NOT_PERM) >>
     /\ (last'.op = "read_by_type_req" /\ Len(last'.sent) = 1
           /\ last'.sent[1][1] = ATT_OP_READ_BY_TYPE_RSP)
          => \A i \in DOMAIN TypeRecordsOf(last'.sent[1]) :
               \/ Readable(TypeRecordsOf(last'.sent[1])[i].handle)
               \/ TypeRecordsOf(last'.sent[1])[i].value = <<>>
     /\ (/\ last'.op \in {"write_req", "write_cmd"}
         /\ last'.handle \in DOMAIN attributes_
         /\ ~Writable(last'.handle))
          => /\ attributes_'[last'.handle].value = attributes_[last'.handle].value
             /\ last'.handle \notin last'.hooks]_vars

---------------------------------------------------------------------------
(* Link security. The transport keeps a handle, a socket, a peer address   *)
(* and an MTU for a link and nothing about its security; the security of a *)
(* link is a fact of its peer: a peer that never paired has a link that is *)
(* not encrypted, not authenticated and not authorized.                    *)

ATT_PERM_READ_AUTHOR == 64
ATT_PERM_WRITE_AUTHOR == 128
BLE_ATT_ERR_INSUFFICIENT_AUTHEN == 5
BLE_ATT_ERR_INSUFFICIENT_AUTHOR == 8
BLE_ATT_ERR_INSUFFICIENT_ENC == 15

UnpairedPeers == {"AA:AA:AA:AA:AA:AA"}

Unsecured(conn_handle) ==
  /\ conn_handle \in DOMAIN bluez_connections_
  /\ bluez_connections_[conn_handle].peer_addr \in UnpairedPeers

(* A service whose first characteristic needs an encrypted link to be read *)
(* or written (rows 2, 3) and whose second needs an authenticated one      *)
(* (rows 4, 5); both keep a static value.                                  *)
SecureTree ==
  << ServiceDef("PRIMARY", UUID16(6159),
       << CharDef(UUID16(10777),
                  GATT_CHR_F_READ + GATT_CHR_F_WRITE + GATT_CHR_F_READ_ENC
                    + GATT_CHR_F_WRITE_ENC, NoCb),
          CharDef(UUID16(10778),
                  GATT_CHR_F_READ + GATT_CHR_F_WRITE + GATT_CHR_F_READ_AUTHEN
                    + GATT_CHR_F_WRITE_AUTHEN, NoCb) >>) >>

NextSec ==
  \/ \E services \in {SecureTree} : RegisterServices(services)
  \/ Run
  \/ \E peer_addr \in SubPeers : AcceptConnection(peer_addr)
  \/ \E c \in Links : Disconnect(c)
  \/ \E c \in Links, h \in ReqHandles : ReadReq(c, h)
  \/ \E c \in Links, h \in ReqHandles, v \in WriteValues : WriteReq(c, h, v)
  \/ Return

SpecSec == Init /\ [][NextSec]_vars

(* The Insufficient... codes a request of the opcode may be refused with   *)
(* on a link without security, given the permissions of the row.           *)
InsufficientCodes(opcode, permissions) ==
  IF opcode = ATT_OP_READ_REQ
  THEN (IF HasBit(permissions, ATT_PERM_READ_ENCRYPT)
        THEN {BLE_ATT_ERR_INSUFFICIENT_ENC} ELSE {})
       \cup (IF HasBit(permissions, ATT_PERM_READ_AUTHEN)
             THEN {BLE_ATT_ERR_INSUFFICIENT_AUTHEN} ELSE {})
       \cup (IF HasBit(permissions, ATT_PERM_READ_AUTHOR)
             THEN {BLE_ATT_ERR_INSUFFICIENT_AUTHOR} ELSE {})
  ELSE (IF HasBit(permissions, ATT_PERM_WRITE_ENCRYPT)
        THEN {BLE_ATT_ERR_INSUFFICIENT_ENC} ELSE {})
       \cup (IF HasBit(permissions, ATT_PERM_WRITE_AUTHEN)
             THEN {BLE_ATT_ERR_INSUFFICIENT_AUTHEN} ELSE {})
       \cup (IF HasBit(permissions, ATT_PERM_WRITE_AUTHOR)
             THEN {BLE_ATT_ERR_INSUFFICIENT_AUTHOR} ELSE {})

(* C11: a Read or Write Request for a row whose permissions carry an       *)
(* encrypted, authenticated or authorized bit for that access, arriving on *)
(* a link without security, is answered with the matching Insufficient...  *)
(* Error Response, and the rows are left as they were.                     *)
C11_SecurityBitsGate ==
  [][(/\ last'.op \in {"read_req", "write_req"}
      /\ Len(last'.pdu) >= 3
      /\ last'.handle \in DOMAIN attributes_
      /\ Unsecured(last'.conn)
      /\ InsufficientCodes(last'.pdu[1], attributes_[last'.handle].permissions) # {})
       => /\ \E code \in InsufficientCodes(last'.pdu[1],
                                           attributes_[last'.handle].permissions) :
               last'.sent = << ErrorRsp(last'.pdu[1], last'.handle, code) >>
          /\ attributes_' = attributes_]_vars

---------------------------------------------------------------------------
(* The socket of a link as a queue: the client writes PDUs to it, and a    *)
(* pass of process_events takes the oldest with recv_pdu and hands it to   *)
(* on_transport_data_received, which returns when the handler is done.     *)

(* The PDUs a socket holds before the client waits.                        *)
MaxQueue == 2

ClientSend(conn_handle, pdu) ==
  /\ Quiet
  /\ conn_handle \in DOMAIN socket_rx
  /\ Len(socket_rx[conn_handle]) < MaxQueue
  /\ socket_rx' = [socket_rx EXCEPT ![conn_handle] = Append(@, pdu)]
  /\ UNCHANGED <<call, nimble_vars, thread_vars, db_vars, running_, connections_, bluez_connections_,
                 next_conn_handle_, app_values, disc, unconfirmed, added_under, last>>

ProcessEvents(conn_handle) ==
  /\ Quiet
  /\ running_
  /\ conn_handle \in DOMAIN bluez_connections_
  /\ socket_rx[conn_handle] # <<>>
  /\ Handled("process_events", conn_handle, Head(socket_rx[conn_handle]),
             on_transport_data_received(St, conn_handle, Head(socket_rx[conn_handle])))
  /\ socket_rx' = [socket_rx EXCEPT ![conn_handle] = Tail(@)]
  /\ UNCHANGED <<call, nimble_vars, thread_vars, next_handle_, services_, running_, next_conn_handle_, disc,
                 added_under>>

(* A request of every opcode the dispatcher knows, an opcode it does not   *)
(* know, commands, a confirmation, and requests too short for their opcode.*)
QueuedPdus ==
  { <<ATT_OP_MTU_REQ, 30, 0>>, <<ATT_OP_MTU_REQ>>,
    <<ATT_OP_FIND_INFO_REQ, 1, 0, 255, 255>>,
    <<ATT_OP_FIND_BY_TYPE_VALUE_REQ, 1, 0, 255, 255, 0, 40, 15, 24>>,
    <<ATT_OP_READ_BY_TYPE_REQ, 1, 0, 255, 255, 3, 40>>,
    <<ATT_OP_READ_REQ, 8, 0>>, <<ATT_OP_READ_REQ, 9, 0>>,
    <<ATT_OP_READ_BLOB_REQ, 8, 0, 0, 0>>,
    <<ATT_OP_READ_BY_GROUP_TYPE_REQ, 1, 0, 255, 255, 0, 40>>,
    <<ATT_OP_WRITE_REQ, 3, 0, 1>>, <<ATT_OP_WRITE_REQ>>,
    <<ATT_OP_WRITE_CMD, 3, 0, 2>>, <<ATT_OP_WRITE_CMD, 9, 0, 2>>, <<ATT_OP_WRITE_CMD>>,
    <<ATT_OP_PREPARE_WRITE_REQ, 3, 0, 0, 0, 1>>, <<ATT_OP_EXECUTE_WRITE_REQ, 0>>,
    <<ATT_OP_SIGNED_WRITE_CMD, 3, 0, 1>>, <<ATT_OP_HANDLE_CONFIRM>>, <<99>> }

NextOrd ==
  \/ \E services \in {SensorTree} : RegisterServices(services)
  \/ Run
  \/ \E peer_addr \in LinkPeers : AcceptConnection(peer_addr)
  \/ \E c \in Links : Disconnect(c)
  \/ \E c \in Links, pdu \in QueuedPdus : ClientSend(c, pdu)
  \/ \E c \in Links : ProcessEvents(c)
  \/ Return

SpecOrd == Init /\ [][NextOrd]_vars

(* The opcodes that are answered with nothing.                             *)
Unanswered == {ATT_OP_WRITE_CMD, ATT_OP_SIGNED_WRITE_CMD, ATT_OP_HANDLE_CONFIRM}

(* C12: a pass of process_events hands the oldest PDU of the socket to its *)
(* handler and leaves the later ones in their order, and the handler has   *)
(* submitted exactly one PDU when it returns, for every opcode, the        *)
(* unknown one included, except Write Command, Signed Write Command and    *)
(* Handle Value Confirmation, which submit nothing.                        *)
C12_OneResponsePerRequest ==
  [][last'.op = "process_events"
     => /\ last'.pdu = Head(socket_rx[last'.conn])
        /\ socket_rx'[last'.conn] = Tail(socket_rx[last'.conn])
        /\ IF last'.pdu[1] \in Unanswered
           THEN last'.sent = <<>>
           ELSE Len(last'.sent) = 1]_vars

(* The second of two queued requests has been answered after the first,    *)
(* a Write Command that stored its value without an answer.                *)
C12_Witness ==
  /\ last.op = "process_events"
  /\ last.pdu = <<ATT_OP_READ_REQ, 8, 0>>
  /\ last.sent = << <<ATT_OP_READ_RSP, 100>> >>
  /\ attributes_[3].value = <<2>>
  /\ socket_rx[last.conn] = <<>>

---------------------------------------------------------------------------
(* Requests cut short: every prefix of a well-formed request of each       *)
(* opcode that has a minimum length, the Read By Type and Read By Group    *)
(* Type requests being one byte longer than their 128-bit form.            *)

FullPdus ==
  { <<ATT_OP_MTU_REQ, 30, 0>>,
    <<ATT_OP_FIND_INFO_REQ, 1, 0, 255, 255>>,
    <<ATT_OP_FIND_BY_TYPE_VALUE_REQ, 1, 0, 255, 255, 0, 40, 15, 24>>,
    <<ATT_OP_READ_BY_TYPE_REQ, 1, 0, 255, 255>> \o [i \in 1..17 |-> 160 + i],
    <<ATT_OP_READ_REQ, 3, 0>>,
    <<ATT_OP_READ_BLOB_REQ, 3, 0, 0, 0>>,
    <<ATT_OP_READ_BY_GROUP_TYPE_REQ, 1, 0, 255, 255>> \o [i \in 1..17 |-> 160 + i],
    <<ATT_OP_WRITE_REQ, 3, 0, 1>> }

PrefixPdus == UNION { {Take(pdu, n) : n \in 1..Len(pdu)} : pdu \in FullPdus }

NextLen ==
  \/ \E services \in Trees : RegisterServices(services)
  \/ Run
  \/ \E peer_addr \in LinkPeers : AcceptConnection(peer_addr)
  \/ \E c \in Links : Disconnect(c)
  \/ \E c \in Links, pdu \in PrefixPdus : OtherPdu(c, pdu)
  \/ Return

SpecLen == Init /\ [][NextLen]_vars

(* The length below which a request of the opcode is refused.              *)
MinLength(opcode) ==
  CASE opcode = ATT_OP_MTU_REQ -> 3
    [] opcode = ATT_OP_FIND_INFO_REQ -> 5
    [] opcode = ATT_OP_FIND_BY_TYPE_VALUE_REQ -> 7
    [] opcode = ATT_OP_READ_BY_TYPE_REQ -> 7
    [] opcode = ATT_OP_READ_REQ -> 3
    [] opcode = ATT_OP_READ_BLOB_REQ -> 5
    [] opcode = ATT_OP_READ_BY_GROUP_TYPE_REQ -> 7
    [] opcode = ATT_OP_WRITE_REQ -> 3
    [] OTHER -> 0

TooShort(pdu) ==
  \/ Len(pdu) < MinLength(pdu[1])
  \/ /\ pdu[1] \in {ATT_OP_READ_BY_TYPE_REQ, ATT_OP_READ_BY_GROUP_TYPE_REQ}
     /\ Len(pdu) \notin {7, 21}

(* C13: a request shorter than the minimum of its opcode, and a Read By    *)
(* Type or Read By Group Type request whose length is neither 7 nor 21, is *)
(* answered with the Error Response 01, opcode, 00 00, 04 and leaves the   *)
(* attribute database and both connection tables as they were; a request   *)
(* of the minimum length is not refused as InvalidPdu.                     *)
C13_ShortPduRefused ==
  [][last'.op = "other"
     => IF TooShort(last'.pdu)
        THEN /\ last'.sent = << ErrorRsp(last'.pdu[1], 0, BLE_ATT_ERR_INVALID_PDU) >>
             /\ UNCHANGED <<db_vars, connections_, bluez_connections_>>
        ELSE /\ Len(last'.sent) = 1
             /\ ~(/\ last'.sent[1][1] = ATT_OP_ERROR
                  /\ last'.sent[1][5] = BLE_ATT_ERR_INVALID_PDU)]_vars

(* A Read By Type Request of 20 bytes, one short of the 128-bit form, has  *)
(* been refused.                                                           *)
C13_Witness ==
  /\ last.op = "other"
  /\ Len(last.pdu) = 20
  /\ last.pdu[1] = ATT_OP_READ_BY_TYPE_REQ
  /\ last.sent = << <<ATT_OP_ERROR, ATT_OP_READ_BY_TYPE_REQ, 0, 0, BLE_ATT_ERR_INVALID_PDU>> >>

---------------------------------------------------------------------------
(* The requests that carry a handle range.                                 *)
RangeOps == {"find_info_req", "find_by_type_value_req", "read_by_type_req",
             "read_by_group_type_req"}

(* C14: a Find Information, Find By Type Value, Read By Type or Read By     *)
(* Group Type request whose start handle is 0x0000 or greater than its end *)
(* handle is answered with one Error Response and never with attribute     *)
(* data, and a Read or Write Request for handle 0x0000 is answered with    *)
(* the Error Response InvalidHandle.                                       *)
C14_HandleZeroInvalid ==
  /\ (/\ last.op \in RangeOps
      /\ (RdU16(last.pdu, 1) = 0 \/ RdU16(last.pdu, 1) > RdU16(last.pdu, 3)))
       => /\ Len(last.sent) = 1
          /\ last.sent[1][1] = ATT_OP_ERROR
  /\ (last.op \in {"read_req", "write_req"} /\ last.handle = 0)
       => last.sent = << ErrorRsp(last.pdu[1], 0, BLE_ATT_ERR_INVALID_HANDLE) >>

---------------------------------------------------------------------------
(* The database built with the add_* calls in any order, while it is small *)
(* and when the handle space is about to run out.                          *)

(* A user description descriptor; the application adds no 0x2902 itself.   *)
UUID_USER_DESCRIPTION == UUID16(10497)

CharProperties == {GATT_CHR_PROP_READ, GATT_CHR_PROP_READ + GATT_CHR_PROP_NOTIFY}

NextDb ==
  \/ \E uuid \in {UUID16(6159)} : AddPrimaryService(uuid)
  \/ \E uuid \in {UUID16(6154)} : AddSecondaryService(uuid)
  \/ \E s \in ServiceHandles, i \in ServiceHandles \cup {0} : AddInclude(s, i)
  \/ \E s \in ServiceHandles, properties \in CharProperties :
       AddCharacteristic(s, UUID16(10777), properties, ATT_PERM_READ)
  \/ \E v \in ValueHandles : AddDescriptor(v, UUID_USER_DESCRIPTION, ATT_PERM_READ)
  \/ \E s \in ServiceHandles, left \in 0..MaxLeft : ExhaustHandles(s, left)
  \/ Return

SpecDb == Init /\ [][NextDb]_vars

(* The rows added under a service, and the largest handle of a set.        *)
Under(s) == {h \in DOMAIN added_under : added_under[h] = s /\ h # s}

Largest(S) == CHOOSE h \in S : \A k \in S : k <= h

(* The end handle the service-group list records for a service.            *)
ListedEnd(s) ==
  {services_[i].end_handle : i \in {j \in DOMAIN services_ :
                                      services_[j].start_handle = s}}

(* C15: the end_group_handle of every service row is its own handle when   *)
(* nothing was added under the service and otherwise the largest handle    *)
(* added under it, and it is the end handle the service-group list records *)
(* for the service.                                                        *)
C15_EndGroupHandle ==
  \A s \in ServiceHandles :
    /\ attributes_[s].end_group_handle =
         (IF Under(s) = {} THEN s ELSE Largest(Under(s)))
    /\ ListedEnd(s) = {attributes_[s].end_group_handle}

(* C16: for every service row s, every row whose handle lies in            *)
(* (s.handle, s.end_group_handle] was added by a call that named s, and no *)
(* other service row lies in that range.                                   *)
C16_GroupsDoNotInterleave ==
  \A s \in ServiceHandles, h \in DOMAIN attributes_ :
    (h > s /\ h <= attributes_[s].end_group_handle)
      => added_under[h] = s /\ h \notin ServiceHandles

(* The value rows of the characteristics that notify or indicate.          *)
Notifying ==
  {v \in ValueHandles : \/ HasBit(attributes_[v].properties, GATT_CHR_PROP_NOTIFY)
                        \/ HasBit(attributes_[v].properties, GATT_CHR_PROP_INDICATE)}

(* C17: every characteristic that add_characteristic inserted and whose    *)
(* properties include notify or indicate owns exactly one CCCD row: it is  *)
(* at the value handle + 1, within the group of the service the call       *)
(* named, has UUID 0x2902, permissions read and write and the value 00 00; *)
(* there are no other CCCD rows.                                           *)
C17_EveryNotifierHasCccd ==
  /\ \A v \in Notifying :
       /\ v + 1 \in DOMAIN attributes_
       /\ UuidEq(attributes_[v + 1].uuid, UUID_CCCD)
       /\ attributes_[v + 1].type = "DESCRIPTOR"
       /\ attributes_[v + 1].permissions = ATT_PERM_READ + ATT_PERM_WRITE
       /\ attributes_[v + 1].value = <<0, 0>>
       /\ added_under[v] \in ServiceHandles
            => /\ v + 1 > added_under[v]
               /\ v + 1 <= attributes_[added_under[v]].end_group_handle
  /\ CccdHandles = {v + 1 : v \in Notifying}

(* C18: every handle from a service row to its end_group_handle addresses  *)
(* a row, also after add_* calls that failed.                              *)
C18_HandlesDenseInService ==
  \A s \in ServiceHandles :
    \A h \in s..attributes_[s].end_group_handle : h \in DOMAIN attributes_

(* The handles an add_* call needs, and the handles that are left.         *)
Needs(op, args) ==
  IF op = "add_characteristic"
  THEN (IF HasBit(args[1], GATT_CHR_PROP_NOTIFY) \/ HasBit(args[1], GATT_CHR_PROP_INDICATE)
        THEN 3 ELSE 2)
  ELSE 1

HandlesLeft == HANDLE_LIMIT - next_handle_

AddOps == {"add_primary_service", "add_secondary_service", "add_include",
           "add_characteristic", "add_descriptor"}

(* C19: an add_* call that needs more handles than are left returns 0 and  *)
(* leaves the rows, the service-group list and next_handle_ as they were,  *)
(* and an add_* call that returns a handle has inserted every row it is to *)
(* insert.                                                                 *)
C19_ExhaustionAllOrNothing ==
  [][last'.op \in AddOps
     => /\ Needs(last'.op, last'.data) > HandlesLeft
             => last'.ret = 0 /\ UNCHANGED db_vars
        /\ last'.ret # 0
             => Cardinality(DOMAIN attributes_' \ DOMAIN attributes_)
                  = Needs(last'.op, last'.data)]_vars

---------------------------------------------------------------------------
(* A client that subscribes to indications and confirms them, or does not, *)
(* while the application indicates.                                        *)

NextInd ==
  \/ \E services \in {SensorTree} : RegisterServices(services)
  \/ Run
  \/ \E peer_addr \in SubPeers : AcceptConnection(peer_addr)
  \/ \E c \in Links : Disconnect(c)
  \/ \E c \in Links, h \in CccdHandles, v \in {<<2, 0>>, <<0, 0>>} : WriteReq(c, h, v)
  \/ \E c \in ConnHandles, h \in NotifyHandles, d \in NotifyData : Indicate(c, h, d)
  \/ \E c \in Links, pdu \in {<<ATT_OP_HANDLE_CONFIRM>>} : OtherPdu(c, pdu)
  \/ Return

SpecInd == Init /\ [][NextInd]_vars

(* C20: a 0x1D PDU is submitted on a connection only when no indication is *)
(* outstanding on it, that is, when a Handle Value Confirmation has been   *)
(* received on the connection since the 0x1D PDU submitted before.         *)
C20_OneIndicationOutstanding ==
  [][(last'.op = "indicate" /\ last'.sent # <<>>) => ~unconfirmed[last'.conn]]_vars

---------------------------------------------------------------------------
(* A subscribed client at MTU 23 or 24, and payloads at, one over and two  *)
(* over the 20 bytes that fit a PDU of 23.                                 *)

LongData == {Bytes(20), Bytes(21), Bytes(22)}

NextTrunc ==
  \/ \E services \in {SensorTree} : RegisterServices(services)
  \/ Run
  \/ \E peer_addr \in LinkPeers : AcceptConnection(peer_addr)
  \/ \E c \in Links : Disconnect(c)
  \/ \E c \in Links, m \in {23, 24} : MtuReq(c, m)
  \/ \E c \in Links, h \in CccdHandles, v \in {<<3, 0>>, <<0, 0>>} : WriteReq(c, h, v)
  \/ \E c \in ConnHandles, h \in {3}, d \in LongData : Notify(c, h, d)
  \/ \E c \in ConnHandles, h \in {3}, d \in LongData : Indicate(c, h, d)
  \/ Return

SpecTrunc == Init /\ [][NextTrunc]_vars

(* C21: the PDU notify or indicate submits is the opcode, the value handle *)
(* little-endian and the payload cut to MTU - 3 bytes, so it is never      *)
(* longer than the MTU of the connection.                                  *)
C21_NotifyTruncatesToMtu ==
  [][(last'.op \in {"notify", "indicate"} /\ last'.sent # <<>>) =>
       /\ last'.sent = << <<IF last'.op = "notify" THEN ATT_OP_HANDLE_NOTIFY
                                                   ELSE ATT_OP_HANDLE_INDICATE,
                            Lo(last'.handle), Hi(last'.handle)>>
                          \o Take(last'.data, connections_[last'.conn].mtu - 3) >>
       /\ Len(last'.sent[1]) <= connections_[last'.conn].mtu]_vars

---------------------------------------------------------------------------
(* Two threads. The state-machine thread is inside run(): it takes a PDU   *)
(* from a link, runs its handler and sends the response. An application    *)
(* thread calls set_characteristic_value on db() and notify. A thread at   *)
(* "value" is reading or assigning attr->value of pc[t].handle; a thread   *)
(* at "send" is inside transport_->send_pdu for pc[t].conn.                *)

(* The row whose static value the handler of pdu reads or assigns, or 0:   *)
(* invoke_read_callback and invoke_write_callback reach attr->value when   *)
(* the checks before them pass and the row has no callback.                *)
ValueAccessed(attrs, pdu) ==
  LET handle == RdU16(pdu, 1)
  IN IF Len(pdu) < 3 \/ handle \notin DOMAIN attrs THEN 0
     ELSE IF /\ pdu[1] = ATT_OP_READ_REQ
             /\ HasBit(attrs[handle].permissions, ATT_PERM_READ)
             /\ attrs[handle].read_cb.cb = "none"
     THEN handle
     ELSE IF /\ pdu[1] = ATT_OP_WRITE_REQ
             /\ HasBit(attrs[handle].permissions, ATT_PERM_WRITE)
             /\ attrs[handle].write_cb.cb = "none"
     THEN handle
     ELSE 0

(* A vector read while it is assigned, or assigned from two threads: the   *)
(* bytes of one, of the other, or the head of one and the tail of the      *)
(* other.                                                                  *)
Torn(a, b) == Take(a, 1) \o Drop(b, 1)

RaceOutcomes(own, raced) ==
  IF raced = {} THEN {own}
  ELSE With(raced \cup {own},
            LAMBDA all : all \cup {Torn(a, b) : a \in all, b \in all})

(* The handlers that take connections_mutex_: the MTU exchange and a CCCD  *)
(* write.                                                                  *)
TakesMutex(attrs, pdu) ==
  \/ Len(pdu) >= 1 /\ pdu[1] = ATT_OP_MTU_REQ
  \/ /\ Len(pdu) = 5
     /\ pdu[1] = ATT_OP_WRITE_REQ
     /\ RdU16(pdu, 1) \in DOMAIN attrs
     /\ UuidEq(attrs[RdU16(pdu, 1)].uuid, UUID_CCCD)

(* process_events has received pdu and on_transport_data_received has      *)
(* dispatched it; the handler has reached the access to attr->value, if it *)
(* makes one.                                                              *)
SmReceive(conn_handle, pdu) ==
  /\ running_
  /\ conn_handle \in DOMAIN bluez_connections_
  /\ pc.sm.at = "idle"
  /\ LET h == ValueAccessed(attributes_, pdu)
     IN pc' = [pc EXCEPT !.sm =
                 [ThreadIdle EXCEPT
                    !.at = IF h # 0 THEN "value" ELSE "handler",
                    !.conn = conn_handle, !.handle = h, !.pdu = pdu,
                    !.raced = IF h # 0 /\ pc.app.at = "value" /\ pc.app.handle = h
                              THEN {attributes_[h].value, pc.app.pdu} ELSE {}]]
  /\ UNCHANGED <<call, nimble_vars, db_vars, running_, connections_, bluez_connections_,
                 next_conn_handle_, app_values, disc, io_vars, added_under,
                 connections_mutex_, last>>

(* The handler runs up to its send_pdu. A read that raced returns any of   *)
(* the outcomes and leaves the row alone; a write that raced leaves any of *)
(* the outcomes in the row.                                                *)
SmHandle ==
  /\ pc.sm.at \in {"value", "handler"}
  /\ TakesMutex(attributes_, pc.sm.pdu) => connections_mutex_ = "free"
  /\ LET h == pc.sm.handle
         pdu == pc.sm.pdu
         reads == h # 0 /\ pdu[1] = ATT_OP_READ_REQ
         writes == h # 0 /\ pdu[1] = ATT_OP_WRITE_REQ
     IN \E v \in IF reads THEN RaceOutcomes(attributes_[h].value, pc.sm.raced)
                 ELSE IF writes THEN RaceOutcomes(Drop(pdu, 3), pc.sm.raced)
                 ELSE {<<>>} :
          With(on_transport_data_received(
                 IF reads THEN [St EXCEPT !.attrs[h].value = v] ELSE St,
                 pc.sm.conn, pdu),
               LAMBDA r :
                 /\ attributes_' = IF reads THEN attributes_
                                   ELSE IF writes
                                   THEN [r.st.attrs EXCEPT ![h].value = v]
                                   ELSE r.st.attrs
                 /\ connections_' = r.st.conns
                 /\ bluez_connections_' = r.st.tconns
                 /\ app_values' = app_values \ r.stored
                 /\ pc' = [pc EXCEPT !.sm =
                             IF r.sent = <<>> THEN ThreadIdle
                             ELSE [@ EXCEPT !.at = "send", !.raced = {},
                                            !.tx = r.sent]])
  /\ UNCHANGED <<call, nimble_vars, next_handle_, services_, running_, next_conn_handle_, disc,
                 io_vars, added_under, connections_mutex_, last>>

(* send_pdu returns and the handler with it.                               *)
SmSent ==
  /\ pc.sm.at = "send"
  /\ pc' = [pc EXCEPT !.sm = ThreadIdle]
  /\ UNCHANGED <<call, nimble_vars, db_vars, running_, connections_, bluez_connections_,
                 next_conn_handle_, app_values, disc, io_vars, added_under,
                 connections_mutex_, last>>

(* set_characteristic_value has passed its checks and starts               *)
(* attr->value = value.                                                    *)
AppSetBegin(char_value_handle, value) ==
  /\ pc.app.at = "idle"
  /\ set_characteristic_value(attributes_, char_value_handle, value).ret = 0
  /\ LET overlap == pc.sm.at = "value" /\ pc.sm.handle = char_value_handle
     IN pc' = [pc EXCEPT
                 !.app = [ThreadIdle EXCEPT !.at = "value",
                                            !.handle = char_value_handle,
                                            !.pdu = value],
                 !.sm.raced = IF overlap
                              THEN @ \cup {attributes_[char_value_handle].value, value}
                              ELSE @]
  /\ UNCHANGED <<call, nimble_vars, db_vars, running_, connections_, bluez_connections_,
                 next_conn_handle_, app_values, disc, io_vars, added_under,
                 connections_mutex_, last>>

(* The assignment ends and set_characteristic_value returns 0. While the   *)
(* state-machine thread assigns the same row, the row holds any outcome.   *)
AppSetEnd ==
  /\ pc.app.at = "value"
  /\ LET h == pc.app.handle
         overlap == /\ pc.sm.at = "value"
                    /\ pc.sm.handle = h
                    /\ pc.sm.pdu[1] = ATT_OP_WRITE_REQ
     IN \E v \in RaceOutcomes(pc.app.pdu,
                              IF overlap THEN {Drop(pc.sm.pdu, 3)} ELSE {}) :
          attributes_' = set_characteristic_value(attributes_, h, v).attrs
  /\ app_values' = app_values \cup {pc.app.handle}
  /\ pc' = [pc EXCEPT !.app = ThreadIdle]
  /\ UNCHANGED <<call, nimble_vars, next_handle_, services_, running_, connections_,
                 bluez_connections_, next_conn_handle_, disc, io_vars,
                 added_under, connections_mutex_, last>>

(* notify takes connections_mutex_, makes its checks and calls send_pdu    *)
(* with the mutex held; when a check fails it returns -1 at once.          *)
AppNotifyBegin(conn_handle, char_val_handle, data) ==
  /\ pc.app.at = "idle"
  /\ attributes_ # <<>>
  /\ connections_mutex_ = "free"
  /\ With(notify(St, conn_handle, char_val_handle, data),
          LAMBDA r :
            /\ connections_' = r.conns
            /\ IF r.sent = <<>>
               THEN UNCHANGED <<pc, connections_mutex_>>
               ELSE /\ connections_mutex_' = "app"
                    /\ pc' = [pc EXCEPT !.app =
                                [ThreadIdle EXCEPT !.at = "send", !.conn = conn_handle,
                                                   !.handle = char_val_handle,
                                                   !.pdu = data, !.tx = r.sent]])
  /\ UNCHANGED <<call, nimble_vars, db_vars, running_, bluez_connections_, next_conn_handle_,
                 app_values, disc, io_vars, added_under, last>>

(* send_pdu returns, and notify with it: the lock_guard lets go.           *)
AppNotifyEnd ==
  /\ pc.app.at = "send"
  /\ connections_mutex_' = "free"
  /\ pc' = [pc EXCEPT !.app = ThreadIdle]
  /\ UNCHANGED <<call, nimble_vars, db_vars, running_, connections_, bluez_connections_,
                 next_conn_handle_, app_values, disc, io_vars, added_under, last>>

ThreadPdus ==
  { <<ATT_OP_READ_REQ, 3, 0>>, <<ATT_OP_READ_REQ, 8, 0>>,
    <<ATT_OP_WRITE_REQ, 3, 0, 9, 9>>, <<ATT_OP_WRITE_REQ, 4, 0, 1, 0>>,
    <<ATT_OP_WRITE_CMD, 6, 0, 5>> }

ThreadValues == {<<7, 7>>}

(* Accepting a link and losing one are steps of the state-machine thread,  *)
(* and on_transport_connected and on_transport_disconnected take the       *)
(* mutex.                                                                  *)
SmFree == pc.sm.at = "idle" /\ connections_mutex_ = "free"

NextThr ==
  \/ \E services \in {SensorTree} : RegisterServices(services)
  \/ Run
  \/ SmFree /\ \E peer_addr \in LinkPeers : AcceptConnection(peer_addr)
  \/ SmFree /\ \E c \in Links : Disconnect(c)
  \/ \E c \in Links, pdu \in ThreadPdus : SmReceive(c, pdu)
  \/ SmHandle
  \/ SmSent
  \/ \E h \in {3}, v \in ThreadValues : AppSetBegin(h, v)
  \/ AppSetEnd
  \/ \E c \in ConnHandles, h \in {3}, d \in NotifyData : AppNotifyBegin(c, h, d)
  \/ AppNotifyEnd
  \/ Return

SpecThr == Init /\ [][NextThr]_vars

(* C22: no thread is inside set_characteristic_value assigning the static  *)
(* value of a row while the state-machine thread reads that value for a    *)
(* response or replaces it for a Write Request.                            *)
C22_StaticValueExclusive ==
  ~(/\ pc.app.at = "value"
    /\ pc.sm.at = "value"
    /\ pc.app.handle = pc.sm.handle)

(* C23: the state-machine thread, sending a response, and an application   *)
(* thread, sending a notification, are never both inside send_pdu for the  *)
(* same connection.                                                        *)
C23_SendsSerializedPerConnection ==
  ~(/\ pc.app.at = "send"
    /\ pc.sm.at = "send"
    /\ pc.app.conn = pc.sm.conn)

---------------------------------------------------------------------------
(* The advertising-report parser of lescan.cc. A Span is the sequence of   *)
(* the bytes it still covers; pop_front and operator[] throw               *)
(* std::out_of_range past its end. A parsing function leaves the exception *)
(* that left it, if any, and the records it returned.                      *)

HCI_EVENT_PKT == 4

EVT_LE_META_EVENT == 62

(* The AD types of blepp/gap.h.                                            *)
GAP == [flags |-> 1,
        incomplete_list_of_16_bit_UUIDs |-> 2, complete_list_of_16_bit_UUIDs |-> 3,
        incomplete_list_of_128_bit_UUIDs |-> 6, complete_list_of_128_bit_UUIDs |-> 7,
        shortened_local_name |-> 8, complete_local_name |-> 9,
        manufacturer_data |-> 255]

Parsed(records) == [error |-> "none", records |-> records]

Thrown(what) == [error |-> what, records |-> <<>>]

(* A pointer member is the empty sequence (nullptr) or holds one object.   *)
AdvertisingResponse ==
  [address |-> <<>>, type |-> 0, rssi |-> 0, UUIDs |-> <<>>,
   uuid_16_bit_complete |-> FALSE, uuid_128_bit_complete |-> FALSE,
   local_name |-> <<>>, flags |-> <<>>, manufacturer_specific_data |-> <<>>,
   unparsed_data_with_types |-> <<>>, raw_packet |-> <<>>]

(* AdvertisingResponse::Flags: the chunk without its type byte, and the    *)
(* bits of its first byte.                                                 *)
Flags(s) ==
  LET flag_data == Drop(s, 1)
      bit(mask) == flag_data # <<>> /\ HasBit(flag_data[1], mask)
  IN [flag_data |-> flag_data,
      LE_limited_discoverable |-> bit(1), LE_general_discoverable |-> bit(2),
      BR_EDR_unsupported |-> bit(4), simultaneous_LE_BR_controller |-> bit(8),
      simultaneous_LE_BR_host |-> bit(16)]

(* int8_t rssi = packet.pop_front()                                        *)
Int8(b) == IF b >= 128 THEN b - 256 ELSE b

(* The address bytes arrive least significant first and each is put in     *)
(* front of the string, two hex digits a byte.                             *)
AddressOf(bytes) == [j \in 1..6 |-> bytes[7 - j]]

(* chunk.pop_front() + chunk.pop_front()*256 until the chunk is empty: the *)
(* two calls are not ordered by the language, so either byte may be the    *)
(* low one; the second pop_front throws on a list of odd length.           *)
RECURSIVE Uuids16(_, _, _)
Uuids16(chunk, first, acc) ==
  IF chunk = <<>> THEN [ok |-> TRUE, uuids |-> acc]
  ELSE IF Len(chunk) < 2 THEN [ok |-> FALSE, uuids |-> acc]
  ELSE Uuids16(Drop(chunk, 2), first,
               Append(acc, UUID16(IF first = "left" THEN chunk[1] + chunk[2] * 256
                                  ELSE chunk[2] + chunk[1] * 256)))

(* chunk.pop_front(16) until the chunk is empty.                           *)
RECURSIVE Uuids128(_, _)
Uuids128(chunk, acc) ==
  IF chunk = <<>> THEN [ok |-> TRUE, uuids |-> acc]
  ELSE IF Len(chunk) < 16 THEN [ok |-> FALSE, uuids |-> acc]
  ELSE Uuids128(Drop(chunk, 16), Append(acc, UUID128(Take(chunk, 16))))

(* One chunk of AD data put into the record; ok is FALSE when decoding it  *)
(* threw std::out_of_range.                                                *)
AdChunk(rsp, chunk, first) ==
  LET type == chunk[1]
      body == Drop(chunk, 1)
  IN IF chunk = <<>> THEN [ok |-> FALSE, rsp |-> rsp]
     ELSE IF type = GAP.flags
     THEN [ok |-> TRUE, rsp |-> [rsp EXCEPT !.flags = <<Flags(chunk)>>]]
     ELSE IF type \in {GAP.incomplete_list_of_16_bit_UUIDs,
                       GAP.complete_list_of_16_bit_UUIDs}
     THEN With(Uuids16(body, first, rsp.UUIDs),
               LAMBDA u : [ok |-> u.ok,
                           rsp |-> [rsp EXCEPT
                                      !.uuid_16_bit_complete =
                                         (type = GAP.complete_list_of_16_bit_UUIDs),
                                      !.UUIDs = u.uuids]])
     ELSE IF type \in {GAP.incomplete_list_of_128_bit_UUIDs,
                       GAP.complete_list_of_128_bit_UUIDs}
     THEN With(Uuids128(body, rsp.UUIDs),
               LAMBDA u : [ok |-> u.ok,
                           rsp |-> [rsp EXCEPT
                                      !.uuid_128_bit_complete =
                                         (type = GAP.complete_list_of_128_bit_UUIDs),
                                      !.UUIDs = u.uuids]])
     ELSE IF type \in {GAP.shortened_local_name, GAP.complete_local_name}
     THEN [ok |-> TRUE,
           rsp |-> [rsp EXCEPT !.local_name =
                      <<[name |-> body, complete |-> type = GAP.complete_local_name]>>]]
     ELSE IF type = GAP.manufacturer_data
     THEN [ok |-> TRUE,
           rsp |-> [rsp EXCEPT !.manufacturer_specific_data = Append(@, body)]]
     ELSE [ok |-> TRUE,
           rsp |-> [rsp EXCEPT !.unparsed_data_with_types = Append(@, chunk)]]

(* while(data.size() > 0): length, then a chunk of that length.            *)
RECURSIVE AdData(_, _, _)
AdData(rsp, data, first) ==
  IF data = <<>> THEN [ok |-> TRUE, rsp |-> rsp]
  ELSE IF data[1] > Len(data) - 1 THEN [ok |-> FALSE, rsp |-> rsp]
  ELSE With(AdChunk(rsp, SubSeq(data, 2, 1 + data[1]), first),
            LAMBDA c : IF ~c.ok THEN c
                       ELSE AdData(c.rsp, Drop(data, 1 + data[1]), first))

(* The loop over the reports: an exception inside the try block drops the  *)
(* report, one outside it leaves the function.                             *)
RECURSIVE AdReports(_, _, _, _, _)
AdReports(packet, i, num_reports, ret, first) ==
  IF i >= num_reports THEN Parsed(ret)
  ELSE IF Len(packet) < 9 \/ packet[9] > Len(packet) - 9
          \/ Len(packet) - 9 - packet[9] < 1
  THEN Thrown("out_of_range")
  ELSE With(Take(Drop(packet, 9), packet[9]),
            LAMBDA data :
              With(AdData([AdvertisingResponse EXCEPT
                             !.address = AddressOf(SubSeq(packet, 3, 8)),
                             !.type = packet[1],
                             !.rssi = Int8(packet[10 + packet[9]]),
                             !.raw_packet = <<data>>],
                          data, first),
                   LAMBDA r :
                     AdReports(Drop(packet, 10 + packet[9]), i + 1, num_reports,
                               IF r.ok THEN Append(ret, r.rsp) ELSE ret, first)))

parse_le_meta_event_advertisement(packet, first) ==
  IF packet = <<>> THEN Thrown("out_of_range")
  ELSE AdReports(Drop(packet, 1), 0, packet[1], <<>>, first)

parse_le_meta_event(packet, first) ==
  IF packet = <<>> THEN Thrown("out_of_range")
  ELSE IF packet[1] = 2 THEN parse_le_meta_event_advertisement(Drop(packet, 1), first)
  ELSE Parsed(<<>>)

parse_event_packet(packet, first) ==
  IF Len(packet) < 2 THEN Thrown("HCIParseError")
  ELSE IF Len(packet) - 2 # packet[2] THEN Thrown("HCIParseError")
  ELSE IF packet[1] = EVT_LE_META_EVENT THEN parse_le_meta_event(Drop(packet, 2), first)
  ELSE Thrown("HCIParseError")

parse_advertisement_packet(p, first) ==
  IF Len(p) < 1 THEN Parsed(<<>>)
  ELSE IF p[1] = HCI_EVENT_PKT THEN parse_event_packet(Drop(p, 1), first)
  ELSE Thrown("HCIParseError")

(* The application parses a raw packet.                                    *)
ParseAdvertisementPacket(p, first) ==
  /\ call' = [fn |-> "parse_advertisement_packet", arg |-> p,
              ret |-> parse_advertisement_packet(p, first)]
  /\ UNCHANGED <<db_vars, running_, connections_, bluez_connections_,
                 next_conn_handle_, app_values, disc, io_vars, added_under,
                 thread_vars, nimble_vars, last>>

(* create_client_transport. What it depends on: the backends compiled in,  *)
(* whether hci_open_dev succeeds for the adapter BlueZClientTransport       *)
(* probes, and what initialize_nimble returns in the constructor of         *)
(* NimbleClientTransport. A pointer is the empty sequence (nullptr) or      *)
(* holds the object.                                                        *)
BlueZClientTransport == [name |-> "BlueZ", initialized_ |-> FALSE]

NimbleClientTransport(env) ==
  [name |-> "Nimble", initialized_ |-> env.initialize_nimble = 0]

is_available(transport, env) ==
  IF transport.name = "BlueZ" THEN env.hci_open_dev ELSE transport.initialized_

get_transport_name(transport) == transport.name

(* A factory that returns the first backend compiled in, usable or not.    *)
create_client_transport_unchecked(build, env) ==
  IF build.BLEPP_BLUEZ_SUPPORT THEN <<BlueZClientTransport>>
  ELSE IF build.BLEPP_NIMBLE_SUPPORT THEN <<NimbleClientTransport(env)>>
  ELSE <<>>

create_client_transport(build, env) ==
  IF build.BLEPP_BLUEZ_SUPPORT /\ is_available(BlueZClientTransport, env)
  THEN <<BlueZClientTransport>>
  ELSE IF /\ build.BLEPP_NIMBLE_SUPPORT
          /\ is_available(NimbleClientTransport(env), env)
  THEN <<NimbleClientTransport(env)>>
  ELSE <<>>

Builds == [BLEPP_BLUEZ_SUPPORT : BOOLEAN, BLEPP_NIMBLE_SUPPORT : BOOLEAN]

Environments == [hci_open_dev : BOOLEAN, initialize_nimble : {0, -1}]

CreateClientTransport(build, env) ==
  /\ call' = [fn |-> "create_client_transport", arg |-> <<build, env>>,
              ret |-> create_client_transport(build, env)]
  /\ UNCHANGED <<db_vars, running_, connections_, bluez_connections_,
                 next_conn_handle_, app_values, disc, io_vars, added_under,
                 thread_vars, nimble_vars, last>>

(* The packets parsed: one or two reports with every kind of AD data, and  *)
(* headers that deviate.                                                   *)
AdDatas ==
  { <<>>, <<2, 1, 6>>, <<3, 3, 15, 24>>, <<1, 3>>, <<3, 9, 65, 66>>,
    <<3, 255, 1, 2>>, <<2, 10, 4>>, <<17, 7>> \o Bytes(16),
    <<2, 1, 6, 3, 3, 15, 24>>,
    <<0>>, <<2, 1, 6, 0>>, <<2, 1, 6, 0, 0>>, <<2, 1, 6, 0, 3, 9, 65, 66>>,
    <<5, 1, 6>>, <<2, 3, 15>>, <<3, 6, 1, 2>>, <<3, 3, 15, 24, 5, 1, 6>> }

Report(event_type, address, data, rssi) ==
  <<event_type, 0>> \o address \o <<Len(data)>> \o data \o <<rssi>>

Hci(packet_id, event_code, slack, body) ==
  <<packet_id, event_code, Len(body) + slack>> \o body

FirstReports == {Report(0, <<170, 187, 204, 221, 238, 255>>, d, 200) : d \in AdDatas}

SecondReports == {Report(4, <<1, 2, 3, 4, 5, 6>>, d, 127) : d \in AdDatas}

Packets ==
  {Hci(4, 62, 0, <<2, 1>> \o r) : r \in FirstReports}
    \cup {Hci(4, 62, 0, <<2, 2>> \o r \o s) : r \in FirstReports, s \in SecondReports}
    \cup {Hci(id, ev, k, <<sub, 1>> \o r) :
            id \in {4, 2}, ev \in {62, 14}, k \in {0, 1}, sub \in {2, 1},
            r \in {Report(0, <<170, 187, 204, 221, 238, 255>>, <<2, 1, 6>>, 200)}}
    \cup {<<>>, <<4>>, <<4, 62>>, <<4, 62, 0>>, <<4, 62, 1, 2>>}

(* A scanning application: it obtains a transport and parses the packets  *)
(* it receives.                                                            *)
NextScan ==
  \/ \E build \in Builds, env \in Environments : CreateClientTransport(build, env)
  \/ \E p \in Packets, first \in {"left", "right"} : ParseAdvertisementPacket(p, first)

SpecScan == Init /\ [][NextScan]_vars

(* C24: an HCI event packet whose event code is not 0x3E, whose            *)
(* parameter-length byte differs from the length of what follows it, or    *)
(* whose sub-event code is not 0x02 fails with HCIParseError and yields no *)
(* record.                                                                 *)
Deviates(p) ==
  /\ Len(p) >= 1
  /\ p[1] = HCI_EVENT_PKT
  /\ \/ Len(p) >= 2 /\ p[2] # EVT_LE_META_EVENT
     \/ Len(p) >= 3 /\ p[3] # Len(p) - 3
     \/ Len(p) >= 4 /\ p[4] # 2

C24_StructuralDeviationFails ==
  (call.fn = "parse_advertisement_packet" /\ Deviates(call.arg))
    => call.ret = Thrown("HCIParseError")

(* The reports of a packet whose header is as it must be, read off by      *)
(* their length bytes: address and AD data of each. The packet is          *)
(* structurally valid when they fill it exactly.                           *)
RECURSIVE SplitReports(_, _)
SplitReports(bytes, n) ==
  IF n = 0 THEN [ok |-> bytes = <<>>, reports |-> <<>>]
  ELSE IF Len(bytes) < 10 \/ Len(bytes) < 10 + bytes[9]
  THEN [ok |-> FALSE, reports |-> <<>>]
  ELSE With(SplitReports(Drop(bytes, 10 + bytes[9]), n - 1),
            LAMBDA rest :
              [ok |-> rest.ok,
               reports |-> <<[address |-> AddressOf(SubSeq(bytes, 3, 8)),
                              data |-> SubSeq(bytes, 10, 9 + bytes[9])]>>
                           \o rest.reports])

ReportsOf(p) ==
  IF Len(p) >= 5 /\ ~Deviates(p) /\ p[1] = HCI_EVENT_PKT
  THEN SplitReports(Drop(p, 5), p[5])
  ELSE [ok |-> FALSE, reports |-> <<>>]

(* The AD data before the first length byte 0 met at the start of a TLV    *)
(* (all of it when there is none), and whether its TLVs are sound: no      *)
(* length beyond the data left, no UUID list cut short.                    *)
RECURSIVE BeforeZero(_)
BeforeZero(data) ==
  IF data = <<>> \/ data[1] = 0 \/ data[1] > Len(data) - 1 THEN <<>>
  ELSE Take(data, 1 + data[1]) \o BeforeZero(Drop(data, 1 + data[1]))

RECURSIVE Sound(_)
Sound(data) ==
  IF data = <<>> THEN TRUE
  ELSE IF data[1] = 0 THEN TRUE
  ELSE IF data[1] > Len(data) - 1 THEN FALSE
  ELSE IF data[2] \in {2, 3} /\ (data[1] - 1) % 2 # 0 THEN FALSE
  ELSE IF data[2] \in {6, 7} /\ (data[1] - 1) % 16 # 0 THEN FALSE
  ELSE Sound(Drop(data, 1 + data[1]))

EndsAtZero(data) == Sound(data) /\ BeforeZero(data) # data

(* The fields of a record decoded from its TLVs.                           *)
Fields(rsp) == [rsp EXCEPT !.raw_packet = <<>>]

(* C25: a TLV length byte of 0 ends the scan of a report; the record of    *)
(* the report is produced and holds every field decoded from the TLVs      *)
(* before the zero.                                                        *)
C25_ZeroLengthEndsScan ==
  (/\ call.fn = "parse_advertisement_packet"
   /\ ReportsOf(call.arg).ok
   /\ Len(ReportsOf(call.arg).reports) = 1
   /\ EndsAtZero(ReportsOf(call.arg).reports[1].data))
    => /\ Len(call.ret.records) = 1
       /\ \E first \in {"left", "right"} :
            Fields(call.ret.records[1]) =
              AdData([AdvertisingResponse EXCEPT
                        !.address = call.ret.records[1].address,
                        !.type = call.ret.records[1].type,
                        !.rssi = call.ret.records[1].rssi],
                     BeforeZero(ReportsOf(call.arg).reports[1].data), first).rsp

(* C26: of a structurally valid packet with n reports, the records         *)
(* returned are those of the reports whose AD data is sound, in the order  *)
(* of the packet, and the call does not fail; n sound reports give n       *)
(* records.                                                                *)
RECURSIVE SoundAddresses(_)
SoundAddresses(reports) ==
  IF reports = <<>> THEN <<>>
  ELSE (IF Sound(reports[1].data) THEN <<reports[1].address>> ELSE <<>>)
         \o SoundAddresses(Drop(reports, 1))

C26_PerReportResilience ==
  (call.fn = "parse_advertisement_packet" /\ ReportsOf(call.arg).ok)
    => /\ call.ret.error = "none"
       /\ [i \in 1..Len(call.ret.records) |-> call.ret.records[i].address]
            = SoundAddresses(ReportsOf(call.arg).reports)

---------------------------------------------------------------------------
(* The MTU accessors of the two transports. BlueZTransport fills its       *)
(* connection map in accept_l2cap_connection; NimbleTransport reports a    *)
(* link from process_hci_event and has no statement that inserts into its  *)
(* map.                                                                    *)

(* The value set_mtu returns.                                              *)
set_mtu_ret(tconns, conn_handle) == IF conn_handle \in DOMAIN tconns THEN 0 ELSE -1

Accessor(fn, arg, ret) ==
  /\ call' = [fn |-> fn, arg |-> arg, ret |-> ret]
  /\ UNCHANGED <<db_vars, running_, connections_, next_conn_handle_, app_values,
                 disc, io_vars, added_under, thread_vars, nimble_reported, last>>

BlueZSetMtu(conn_handle, mtu) ==
  /\ bluez_connections_' = set_mtu(bluez_connections_, conn_handle, mtu)
  /\ Accessor("set_mtu", <<"BlueZ", conn_handle, mtu>>,
              set_mtu_ret(bluez_connections_, conn_handle))
  /\ UNCHANGED nimble_connections_

BlueZGetMtu(conn_handle) ==
  /\ Accessor("get_mtu", <<"BlueZ", conn_handle>>,
              get_mtu(bluez_connections_, conn_handle))
  /\ UNCHANGED <<bluez_connections_, nimble_connections_>>

NimbleSetMtu(conn_handle, mtu) ==
  /\ nimble_connections_' = set_mtu(nimble_connections_, conn_handle, mtu)
  /\ Accessor("set_mtu", <<"Nimble", conn_handle, mtu>>,
              set_mtu_ret(nimble_connections_, conn_handle))
  /\ UNCHANGED bluez_connections_

NimbleGetMtu(conn_handle) ==
  /\ Accessor("get_mtu", <<"Nimble", conn_handle>>,
              get_mtu(nimble_connections_, conn_handle))
  /\ UNCHANGED <<bluez_connections_, nimble_connections_>>

(* process_hci_event with HCI_Connection_Complete (0x03) and with          *)
(* HCI_Disconnection_Complete (0x05), status 0: on_connected and           *)
(* on_disconnected are called and the map is left as it is.                *)
NimbleEvent(reported) ==
  /\ nimble_reported' = reported
  /\ call' = NoCall
  /\ UNCHANGED <<db_vars, running_, connections_, bluez_connections_,
                 next_conn_handle_, app_values, disc, io_vars, added_under,
                 thread_vars, nimble_connections_, last>>

NimbleConnectionComplete(conn_handle) ==
  /\ conn_handle \notin nimble_reported
  /\ NimbleEvent(nimble_reported \cup {conn_handle})

NimbleDisconnectionComplete(conn_handle) ==
  /\ conn_handle \in nimble_reported
  /\ NimbleEvent(nimble_reported \ {conn_handle})

AccessorMtus == {100}

NextMtu ==
  \/ \E services \in {SensorTree} : RegisterServices(services)
  \/ Run
  \/ \E peer_addr \in LinkPeers : AcceptConnection(peer_addr)
  \/ \E c \in Links : Disconnect(c)
  \/ \E c \in Links, m \in {30} : MtuReq(c, m)
  \/ \E c \in ConnHandles, m \in AccessorMtus : BlueZSetMtu(c, m)
  \/ \E c \in ConnHandles : BlueZGetMtu(c)
  \/ \E c \in ConnHandles : NimbleConnectionComplete(c)
  \/ \E c \in ConnHandles : NimbleDisconnectionComplete(c)
  \/ \E c \in ConnHandles, m \in AccessorMtus : NimbleSetMtu(c, m)
  \/ \E c \in ConnHandles : NimbleGetMtu(c)
  \/ Return

SpecMtu == Init /\ [][NextMtu]_vars

(* The links a transport has reported connected and not yet disconnected.  *)
Reported(backend) == IF backend = "BlueZ" THEN DOMAIN connections_ ELSE nimble_reported

TransportMap(backend, bluez, nimble) == IF backend = "BlueZ" THEN bluez ELSE nimble

(* C27: on either backend, set_mtu(c, m) for a link the transport has      *)
(* reported connected and not yet disconnected succeeds and get_mtu(c)     *)
(* then returns m; for a link the transport does not know, set_mtu fails   *)
(* and get_mtu returns 23.                                                 *)
C27_MtuAccessorRoundTrip ==
  [][call' # call =>
       /\ call'.fn = "set_mtu" =>
            IF call'.arg[2] \in Reported(call'.arg[1])
            THEN /\ call'.ret = 0
                 /\ get_mtu(TransportMap(call'.arg[1], bluez_connections_',
                                      nimble_connections_'),
                         call'.arg[2]) = call'.arg[3]
            ELSE call'.ret = -1
       /\ (call'.fn = "get_mtu" /\ call'.arg[2] \notin Reported(call'.arg[1]))
            => call'.ret = 23]_vars

---------------------------------------------------------------------------
(* C28: create_client_transport returns nullptr or a transport that        *)
(* reports is_available() and has a non-empty name; BlueZ is tried before  *)
(* Nimble, and a backend that is not available is never returned.          *)
Usable(build, env) ==
  { t \in {BlueZClientTransport, NimbleClientTransport(env)} :
      /\ t.name = "BlueZ" => build.BLEPP_BLUEZ_SUPPORT
      /\ t.name = "Nimble" => build.BLEPP_NIMBLE_SUPPORT
      /\ is_available(t, env) }

C28_FactoryReturnsAvailable ==
  call.fn = "create_client_transport" =>
    /\ call.ret = <<>> <=> Usable(call.arg[1], call.arg[2]) = {}
    /\ call.ret # <<>> =>
         /\ call.ret[1] \in Usable(call.arg[1], call.arg[2])
         /\ get_transport_name(call.ret[1]) # ""
         /\ BlueZClientTransport \in Usable(call.arg[1], call.arg[2])
              => call.ret[1] = BlueZClientTransport

(* BlueZ is compiled in and its adapter cannot be opened, and the factory  *)
(* has fallen back to Nimble.                                              *)
C28_Witness ==
  /\ call.fn = "create_client_transport"
  /\ call.arg[1].BLEPP_BLUEZ_SUPPORT
  /\ ~call.arg[2].hci_open_dev
  /\ call.ret # <<>>
  /\ get_transport_name(call.ret[1]) = "Nimble"

---------------------------------------------------------------------------
(* The flag word of a characteristic definition, and the properties and    *)
(* permissions register_services computes from it, for every word of 16    *)
(* bits.                                                                   *)

FlagWords == 0..65535

InitFlags ==
  \E flags \in FlagWords :
    Constructed([fn |-> "flags_to", arg |-> <<flags>>, ret |-> <<>>])

TranslateFlags ==
  /\ call.fn = "flags_to"
  /\ call.ret = <<>>
  /\ call' = [call EXCEPT !.ret = <<flags_to_properties(call.arg[1]),
                                    flags_to_permissions(call.arg[1])>>]
  /\ UNCHANGED <<db_vars, running_, connections_, bluez_connections_,
                 next_conn_handle_, app_values, disc, io_vars, added_under,
                 thread_vars, nimble_vars, last>>

NextFlags == TranslateFlags

SpecFlags == InitFlags /\ [][NextFlags]_vars

(* The table: flag bit, property bit set, permission bit set.              *)
FlagTable ==
  { <<1, 1, 0>>, <<2, 2, 1>>, <<4, 4, 2>>, <<8, 8, 2>>, <<16, 16, 0>>,
    <<32, 32, 0>>, <<64, 64, 0>>, <<512, 0, 4>>, <<1024, 0, 16>>,
    <<2048, 0, 64>>, <<4096, 0, 8>>, <<8192, 0, 32>>, <<16384, 0, 128>> }

TableBits(flags, column) ==
  {row[column] : row \in {r \in FlagTable : HasBit(flags, r[1])}} \ {0}

ByteBits == {1, 2, 4, 8, 16, 32, 64, 128}

(* C29: for every flag word, the property bits and the permission bits     *)
(* computed are exactly those the table gives for the flag bits set.       *)
C29_FlagWordTranslation ==
  (call.fn = "flags_to" /\ call.ret # <<>>) =>
    \A bit \in ByteBits :
      /\ HasBit(call.ret[1], bit) <=> bit \in TableBits(call.arg[1], 2)
      /\ HasBit(call.ret[2], bit) <=> bit \in TableBits(call.arg[1], 3)

---------------------------------------------------------------------------
(* Services with 16-bit and with 128-bit UUIDs, and the includes of one    *)
(* service in another.                                                     *)

ServiceUuid(wide) == IF wide THEN VendorUuid ELSE UUID16(6159)

NextInc ==
  \/ \E wide \in BOOLEAN : AddPrimaryService(ServiceUuid(wide))
  \/ \E wide \in BOOLEAN : AddSecondaryService(ServiceUuid(wide))
  \/ \E s \in ServiceHandles, i \in ServiceHandles \cup {0} : AddInclude(s, i)
  \/ \E s \in ServiceHandles :
       AddCharacteristic(s, UUID16(10777), GATT_CHR_PROP_READ, ATT_PERM_READ)
  \/ Return

SpecInc == Init /\ [][NextInc]_vars

(* The UUID a service row carries as its value: the service's own UUID.    *)
ServiceUuidOf(attr) ==
  IF Len(attr.value) = 2 THEN UUID16(attr.value[1] + 256 * attr.value[2])
  ELSE UUID128(attr.value)

(* add_include has just inserted a row.                                    *)
IncludeAdded == last'.op = "add_include" /\ last'.ret # 0

(* C30: the value of the Include row add_include creates is the handle of  *)
(* the included service, its end group handle as the call found it, and    *)
(* then the included service's own UUID in 2 bytes if that UUID is a       *)
(* 16-bit one, nothing if it is a 128-bit one.                             *)
C30_IncludeValue ==
  [][IncludeAdded =>
       attributes_'[last'.ret].value =
         U16LE(last'.data[1])
         \o U16LE(attributes_[last'.data[1]].end_group_handle)
         \o (IF ServiceUuidOf(attributes_[last'.data[1]]).type = "BT_UUID16"
             THEN U16LE(ServiceUuidOf(attributes_[last'.data[1]]).u)
             ELSE <<>>)]_vars

---------------------------------------------------------------------------
(* C31: in every reachable state the stored value of every CCCD row is     *)
(* exactly 2 bytes long, whatever Write Requests and Write Commands the    *)
(* links have delivered.                                                   *)
C31_CccdValueTwoBytes ==
  \A h \in CccdHandles : Len(attributes_[h].value) = 2

---------------------------------------------------------------------------
(* The responses that carry a sequence of records.                         *)

RecordOps ==
  {"find_info_req", "find_by_type_value_req", "read_by_type_req",
   "read_by_group_type_req"}

(* The last request was one of them and was answered with a response that  *)
(* is not an Error Response, on a link whose MTU is 23 or more.            *)
RecordsAnswered ==
  /\ last.op \in RecordOps
  /\ Len(last.sent) = 1
  /\ Len(last.sent[1]) >= 1
  /\ last.sent[1][1] # ATT_OP_ERROR
  /\ last.conn \in DOMAIN bluez_connections_
  /\ get_mtu(bluez_connections_, last.conn) >= ATT_DEFAULT_MTU

RecordRsp == last.sent[1]

(* Opcode, and the format or length byte where the response has one.       *)
HeaderLen == IF last.op = "find_by_type_value_req" THEN 1 ELSE 2

RecordLen ==
  IF last.op = "find_by_type_value_req" THEN 4
  ELSE IF last.op = "find_info_req" THEN (IF RecordRsp[2] = 1 THEN 4 ELSE 18)
  ELSE RecordRsp[2]

(* The rows the request matches.                                           *)
Matching ==
  IF last.op = "find_info_req"
  THEN get_range(attributes_, RdU16(last.pdu, 1), RdU16(last.pdu, 3))
  ELSE IF last.op = "find_by_type_value_req"
  THEN find_by_type_value(attributes_, RdU16(last.pdu, 1), RdU16(last.pdu, 3),
                          UUID16(RdU16(last.pdu, 5)), Drop(last.pdu, 7))
  ELSE find_by_type(attributes_, RdU16(last.pdu, 1), RdU16(last.pdu, 3),
                    UUID16(RdU16(last.pdu, 5)))

(* The whole records the response holds, and the bytes left over.          *)
RecordCount == (Len(RecordRsp) - HeaderLen) \div RecordLen

RecordRest == (Len(RecordRsp) - HeaderLen) % RecordLen

(* C32: a record-sequence response holds whole records only, and as many   *)
(* as fit: all the matching rows, or the largest k with header + k *       *)
(* record length <= MTU.                                                   *)
C32_RecordsFillMtu ==
  RecordsAnswered =>
    /\ RecordLen > 0
    /\ RecordRest = 0
    /\ RecordCount =
         Min(Len(Matching),
             (get_mtu(bluez_connections_, last.conn) - HeaderLen) \div RecordLen)

---------------------------------------------------------------------------
(* A database built call by call, with services of both UUID widths and    *)
(* characteristics of one UUID whose values the application sets to        *)
(* different lengths, read by type and by group type.                      *)

MixValues == {<<1>>, <<1, 2>>}

MixTypes == {10240, 10777}

NextMix ==
  \/ \E wide \in BOOLEAN : AddPrimaryService(ServiceUuid(wide))
  \/ \E s \in ServiceHandles :
       AddCharacteristic(s, UUID16(10777), GATT_CHR_PROP_READ, ATT_PERM_READ)
  \/ Run
  \/ \E peer_addr \in LinkPeers : AcceptConnection(peer_addr)
  \/ \E c \in Links : Disconnect(c)
  \/ \E h \in ValueHandles, v \in MixValues : SetCharacteristicValue(h, v)
  \/ \E c \in Links, t \in MixTypes : ReadByTypeReq(c, 1, 65535, t)
  \/ \E c \in Links : ReadByGroupTypeReq(c, 1, 65535, 10240)
  \/ Return

SpecMix == Init /\ [][NextMix]_vars

(* The bytes of the i-th record of the response, as far as they go.        *)
RecordAt(i) ==
  SubSeq(RecordRsp, HeaderLen + (i - 1) * RecordLen + 1,
         Min(HeaderLen + i * RecordLen, Len(RecordRsp)))

(* C33: a Read By Type Response is the opcode, a length byte L and a whole *)
(* number of records of exactly L bytes, each the handle of a matching row *)
(* and L - 2 bytes of value, also when the matching rows have values of    *)
(* different lengths.                                                      *)
C33_ReadByTypeRecordsUniform ==
  (RecordsAnswered /\ last.op = "read_by_type_req") =>
    /\ RecordLen >= 2
    /\ RecordRest = 0
    /\ RecordCount <= Len(Matching)
    /\ \A i \in 1..RecordCount :
         /\ Len(RecordAt(i)) = RecordLen
         /\ Take(RecordAt(i), 2) = U16LE(Matching[i])

(* C34: every record of a Read By Group Type Response is the handle of a   *)
(* service row, the end group handle of that row and the whole UUID the    *)
(* service was added with, which the row keeps as its value.               *)
C34_GroupRecordsCarryServiceUuid ==
  (RecordsAnswered /\ last.op = "read_by_group_type_req") =>
    /\ RecordLen >= 4
    /\ RecordRest = 0
    /\ \A i \in 1..RecordCount :
         With(RdU16(RecordAt(i), 0), LAMBDA h :
           /\ h \in ServiceHandles
           /\ RecordAt(i) = U16LE(h) \o U16LE(attributes_[h].end_group_handle)
                              \o attributes_[h].value)

(* C38: every record-sequence response that is not an Error Response holds *)
(* at least one complete record, whatever the database holds, on a link    *)
(* whose MTU is 23 or more.                                                *)
C38_AtLeastOneRecord ==
  RecordsAnswered =>
    /\ RecordLen > 0
    /\ Len(RecordRsp) >= HeaderLen + RecordLen

---------------------------------------------------------------------------
(* run() on one thread and stop() on another.  run() sets running_ under   *)
(* running_mutex_ and then tests it, without the mutex, once an iteration; *)
(* stop() clears it under the mutex.  pc.sm is the position of the thread  *)
(* in run(), pc.app that of the thread that calls stop().                  *)

(* The thread has called run() and not yet taken running_mutex_.           *)
RunEnter ==
  /\ Quiet
  /\ pc.sm.at = "idle"
  /\ attributes_ # <<>>
  /\ pc' = [pc EXCEPT !.sm.at = "run"]
  /\ UNCHANGED <<call, nimble_vars, connections_mutex_, db_vars, running_,
                 connections_, bluez_connections_, next_conn_handle_, app_values,
                 disc, io_vars, added_under, last>>

(* lock_guard on running_mutex_; running_ = true.                          *)
RunSetRunning ==
  /\ pc.sm.at = "run"
  /\ running_' = TRUE
  /\ pc' = [pc EXCEPT !.sm.at = "loop"]
  /\ UNCHANGED <<call, nimble_vars, connections_mutex_, db_vars, connections_,
                 bluez_connections_, next_conn_handle_, app_values, disc, io_vars,
                 added_under, last>>

InLoop == pc.sm.at = "loop"

(* stop(): running_ = false under running_mutex_.  When the other thread   *)
(* is in the loop its reads of running_ race with this write, and it sees  *)
(* the write in a later iteration or keeps the value it read before.       *)
Stop ==
  /\ pc.app.at = "idle"
  /\ running_' = FALSE
  /\ \E outcome \in (IF InLoop THEN {"fresh", "stale"} ELSE {"fresh"}) :
       pc' = [pc EXCEPT !.app.at = "stopped", !.sm.raced = {outcome}]
  /\ UNCHANGED <<call, nimble_vars, connections_mutex_, db_vars, connections_,
                 bluez_connections_, next_conn_handle_, app_values, disc, io_vars,
                 added_under, last>>

(* while (running_) finds the flag false: run() returns 0.                 *)
RunExit ==
  /\ Quiet
  /\ InLoop
  /\ ~running_
  /\ "stale" \notin pc.sm.raced
  /\ pc' = [pc EXCEPT !.sm.at = "returned"]
  /\ UNCHANGED <<call, nimble_vars, connections_mutex_, db_vars, running_,
                 connections_, bluez_connections_, next_conn_handle_, app_values,
                 disc, io_vars, added_under, last>>

NextStop ==
  \/ \E services \in {SensorTree} : RegisterServices(services)
  \/ RunEnter
  \/ RunSetRunning
  \/ InLoop /\ \E peer_addr \in LinkPeers : AcceptConnection(peer_addr)
  \/ InLoop /\ \E c \in Links : Disconnect(c)
  \/ InLoop /\ \E c \in Links, m \in {30} : MtuReq(c, m)
  \/ InLoop /\ \E c \in Links, h \in ValueHandles : ReadReq(c, h)
  \/ Stop
  \/ RunExit
  \/ Return

(* The thread in run() is scheduled, and the caller of an operation gets   *)
(* its result.                                                             *)
SpecStop ==
  /\ Init
  /\ [][NextStop]_vars
  /\ WF_vars(RunSetRunning)
  /\ WF_vars(RunExit)
  /\ WF_vars(Return)

(* C36: once stop() has been called while a thread is in run(), run()      *)
(* eventually returns, also when stop() ran before run() set the flag.     *)
C36_StopEndsRun ==
  (pc.app.at = "stopped" /\ pc.sm.at \in {"run", "loop"}) ~> (pc.sm.at = "returned")

---------------------------------------------------------------------------
(* The callbacks of the application, which run on the thread of run(), and *)
(* the calls an application makes from inside one.  pc.sm.at names the     *)
(* callback the thread is in; pc.sm.handle counts the calls made from it.  *)

Callbacks == {"on_connected", "on_disconnected", "on_mtu_exchanged", "hook"}

InCallback(name, conn_handle, pdu) ==
  [ThreadIdle EXCEPT !.at = name, !.conn = conn_handle, !.pdu = pdu]

(* accept_l2cap_connection and on_transport_connected: lock_guard on       *)
(* connections_mutex_ for the whole function, the state stored, then       *)
(* on_connected called.                                                    *)
CbConnected(peer_addr) ==
  /\ Quiet
  /\ running_
  /\ SmFree
  /\ \A c \in DOMAIN bluez_connections_ : bluez_connections_[c].peer_addr # peer_addr
  /\ With(next_conn_handle_, LAMBDA conn_handle :
       /\ next_conn_handle_' = (next_conn_handle_ + 1) % ConnHandleWidth
       /\ bluez_connections_' =
            Put(bluez_connections_, conn_handle, NewConnection(conn_handle, peer_addr))
       /\ connections_' = on_transport_connected(connections_, conn_handle)
       /\ socket_rx' = Put(socket_rx, conn_handle, <<>>)
       /\ unconfirmed' = Put(unconfirmed, conn_handle, FALSE)
       /\ pc' = [pc EXCEPT !.sm = InCallback("on_connected", conn_handle, <<>>)])
  /\ connections_mutex_' = "sm"
  /\ UNCHANGED <<call, nimble_vars, db_vars, running_, app_values, disc,
                 added_under, last>>

(* on_transport_disconnected: the entry erased under a lock_guard in a     *)
(* block of its own, then on_disconnected called.                          *)
CbDisconnected(conn_handle) ==
  /\ Quiet
  /\ SmFree
  /\ conn_handle \in DOMAIN bluez_connections_
  /\ bluez_connections_' = Erase(bluez_connections_, conn_handle)
  /\ connections_' = on_transport_disconnected(connections_, conn_handle)
  /\ socket_rx' = Erase(socket_rx, conn_handle)
  /\ unconfirmed' = Erase(unconfirmed, conn_handle)
  /\ pc' = [pc EXCEPT !.sm = InCallback("on_disconnected", conn_handle, <<>>)]
  /\ UNCHANGED <<call, nimble_vars, db_vars, running_, next_conn_handle_,
                 app_values, disc, added_under, connections_mutex_, last>>

(* handle_mtu_exchange_req: the MTU stored under a lock_guard in a block   *)
(* of its own, the response sent, then on_mtu_exchanged called.            *)
CbMtuExchanged(conn_handle, client_mtu) ==
  /\ Quiet
  /\ running_
  /\ SmFree
  /\ conn_handle \in DOMAIN bluez_connections_
  /\ With(<<ATT_OP_MTU_REQ>> \o U16LE(client_mtu), LAMBDA pdu :
     With(on_transport_data_received(St, conn_handle, pdu), LAMBDA r :
       /\ connections_' = r.st.conns
       /\ bluez_connections_' = r.st.tconns
       /\ pc' = [pc EXCEPT !.sm = [InCallback("on_mtu_exchanged", conn_handle, pdu)
                                     EXCEPT !.tx = r.sent]]))
  /\ UNCHANGED <<call, nimble_vars, db_vars, running_, next_conn_handle_,
                 app_values, disc, io_vars, added_under, connections_mutex_, last>>

(* A Read Request for a row with a read hook: invoke_read_callback calls   *)
(* the hook; no mutex is taken on the way.                                 *)
CbHook(conn_handle, handle) ==
  /\ Quiet
  /\ running_
  /\ SmFree
  /\ conn_handle \in DOMAIN bluez_connections_
  /\ handle \in DOMAIN attributes_
  /\ HasBit(attributes_[handle].permissions, ATT_PERM_READ)
  /\ attributes_[handle].read_cb.cb # "none"
  /\ pc' = [pc EXCEPT !.sm = InCallback("hook", conn_handle,
                                        <<ATT_OP_READ_REQ>> \o U16LE(handle))]
  /\ UNCHANGED <<call, nimble_vars, db_vars, running_, connections_,
                 bluez_connections_, next_conn_handle_, app_values, disc, io_vars,
                 added_under, connections_mutex_, last>>

(* A lock of connections_mutex_, a std::mutex, by the thread in a          *)
(* callback: it is taken when free; a thread that owns it already has      *)
(* undefined behaviour, and blocks for ever or gets an exception.          *)
RelockOutcomes == {"deadlocked", "threw"}

CbLocks(fn, arg, ret, conns) ==
  /\ pc.sm.at \in Callbacks
  /\ pc.sm.handle = 0
  /\ connections_mutex_ # "app"
  /\ IF connections_mutex_ = "sm"
     THEN /\ \E outcome \in RelockOutcomes : pc' = [pc EXCEPT !.sm.at = outcome]
          /\ UNCHANGED <<call, connections_>>
     ELSE /\ pc' = [pc EXCEPT !.sm.handle = 1]
          /\ call' = [fn |-> fn, arg |-> arg, ret |-> ret]
          /\ connections_' = conns
  /\ UNCHANGED <<nimble_vars, db_vars, running_, bluez_connections_,
                 next_conn_handle_, app_values, disc, io_vars, added_under,
                 connections_mutex_, last>>

(* The callback calls notify on the server.                                *)
CbCallsNotify(conn_handle, char_val_handle, data) ==
  With(notify(St, conn_handle, char_val_handle, data), LAMBDA r :
    CbLocks("notify", <<conn_handle, char_val_handle>>, r.ret, r.conns))

(* The callback calls get_connection_state: 1 for a pointer, 0 for nullptr.*)
CbCallsGetConnectionState(conn_handle) ==
  CbLocks("get_connection_state", <<conn_handle>>,
          IF conn_handle \in DOMAIN connections_ THEN 1 ELSE 0, connections_)

(* The callback returns; on_transport_connected then lets go of the mutex, *)
(* and the handler of a Read Request goes on to send its response.         *)
CbReturn ==
  /\ pc.sm.at \in Callbacks
  /\ connections_mutex_' = IF connections_mutex_ = "sm" THEN "free"
                           ELSE connections_mutex_
  /\ pc' = [pc EXCEPT !.sm = ThreadIdle]
  /\ UNCHANGED <<call, nimble_vars, db_vars, running_, connections_,
                 bluez_connections_, next_conn_handle_, app_values, disc, io_vars,
                 added_under, last>>

NextCb ==
  \/ \E services \in {SensorTree} : RegisterServices(services)
  \/ Run
  \/ \E peer_addr \in LinkPeers : CbConnected(peer_addr)
  \/ \E c \in Links : CbDisconnected(c)
  \/ \E c \in Links, m \in {30} : CbMtuExchanged(c, m)
  \/ \E c \in Links, h \in ValueHandles : CbHook(c, h)
  \/ \E c \in ConnHandles, h \in {3}, d \in NotifyData : CbCallsNotify(c, h, d)
  \/ \E c \in ConnHandles : CbCallsGetConnectionState(c)
  \/ CbReturn
  \/ Return

SpecCb == Init /\ [][NextCb]_vars

(* C35: the thread is never in an application callback while it holds      *)
(* connections_mutex_, and a call of notify or get_connection_state from   *)
(* a callback always returns.                                              *)
C35_NoCallbackUnderMutex ==
  /\ pc.sm.at \in Callbacks => connections_mutex_ # "sm"
  /\ pc.sm.at \notin RelockOutcomes

---------------------------------------------------------------------------
(* Write hooks the application installs with set_write_callback, on        *)
(* characteristic values and on CCCD rows, and Write Requests to them.     *)

set_write_callback(attrs, char_value_handle, cb) ==
  IF char_value_handle \notin DOMAIN attrs THEN [attrs |-> attrs, ret |-> -1]
  ELSE [attrs |-> [attrs EXCEPT ![char_value_handle].write_cb = cb], ret |-> 0]

(* A write hook that refuses every write with a non-zero code.             *)
RejectingCb == [cb |-> "rejecting", value |-> <<>>, op |-> "WRITE_CHR"]

SetWriteCallback(char_value_handle, cb) ==
  /\ Quiet
  /\ attributes_ # <<>>
  /\ With(set_write_callback(attributes_, char_value_handle, cb), LAMBDA r :
       /\ attributes_' = r.attrs
       /\ last' = [Idle EXCEPT !.op = "set_write_callback",
                               !.handle = char_value_handle, !.ret = r.ret])
  /\ UNCHANGED <<call, nimble_vars, thread_vars, next_handle_, services_, running_,
                 connections_, bluez_connections_, next_conn_handle_, app_values,
                 disc, io_vars, added_under>>

HookValues == {<<1, 0>>, <<9>>}

NextHook ==
  \/ \E services \in {SensorTree} : RegisterServices(services)
  \/ \E h \in CccdHandles \cup ValueHandles \cup {next_handle_} :
       SetWriteCallback(h, RejectingCb)
  \/ Run
  \/ \E peer_addr \in LinkPeers : AcceptConnection(peer_addr)
  \/ \E c \in Links : Disconnect(c)
  \/ \E c \in Links, h \in ReqHandles, v \in HookValues : WriteReq(c, h, v)
  \/ Return

SpecHook == Init /\ [][NextHook]_vars

(* The step is a Write Request answered with an Error Response.            *)
WriteRefused ==
  /\ last'.op = "write_req"
  /\ Len(last'.sent) = 1
  /\ last'.sent[1][1] = ATT_OP_ERROR

(* The subscriptions of every connection.                                  *)
Subscriptions(conns) == [c \in DOMAIN conns |-> conns[c].cccd_values]

(* C37: a Write Request answered with an Error Response leaves the stored  *)
(* value of every row and the subscriptions of every connection as they    *)
(* were.                                                                   *)
C37_RefusedWriteChangesNothing ==
  [][WriteRefused =>
       /\ \A h \in DOMAIN attributes_ : attributes_'[h].value = attributes_[h].value
       /\ Subscriptions(connections_') = Subscriptions(connections_)]_vars

---------------------------------------------------------------------------
(* One call of BlueZTransport::process_events: accept_l2cap_connection,    *)
(* then a pass over the connection map in the order of the handles, with   *)
(* recv_pdu for each entry.  An empty PDU in a socket's queue is the end   *)
(* of the stream: recv returns 0 and recv_pdu calls disconnect, which      *)
(* erases the entry the loop stands on.                                    *)

(* The peer closes its socket.                                             *)
ClientClose(conn_handle) ==
  /\ Quiet
  /\ conn_handle \in DOMAIN socket_rx
  /\ Len(socket_rx[conn_handle]) < MaxQueue
  /\ <<>> \notin {socket_rx[conn_handle][i] : i \in DOMAIN socket_rx[conn_handle]}
  /\ socket_rx' = [socket_rx EXCEPT ![conn_handle] = Append(@, <<>>)]
  /\ UNCHANGED <<call, nimble_vars, thread_vars, db_vars, running_, connections_,
                 bluez_connections_, next_conn_handle_, app_values, disc,
                 unconfirmed, added_under, last>>

(* The loop goes on from an erased map node: the increment of the iterator *)
(* is undefined, and the pass visits the entries that follow or ends.      *)
EraseOutcomes == {"continues", "stops"}

(* What a pass has done so far.                                            *)
PassStart(st, rx, unconf) ==
  [st |-> st, rx |-> rx, unconfirmed |-> unconf, stored |-> {}, sent |-> <<>>,
   delivered |-> {}, erased |-> {}, live |-> TRUE]

(* recv_pdu for one entry, and on_data_received when it returns data.      *)
PassEntry(acc, c, outcome) ==
  IF ~acc.live \/ c \notin DOMAIN acc.st.tconns THEN acc
  ELSE IF acc.rx[c] = <<>> THEN acc
  ELSE IF Head(acc.rx[c]) = <<>>
  THEN [acc EXCEPT !.st.tconns = Erase(@, c),
                   !.st.conns = on_transport_disconnected(@, c),
                   !.rx = Erase(@, c),
                   !.unconfirmed = Erase(@, c),
                   !.erased = @ \cup {c},
                   !.live = (outcome = "continues")]
  ELSE With(on_transport_data_received(acc.st, c, Head(acc.rx[c])), LAMBDA r :
         [acc EXCEPT !.st = r.st,
                     !.rx[c] = Tail(@),
                     !.unconfirmed[c] = IF Head(acc.rx[c])[1] = ATT_OP_HANDLE_CONFIRM
                                        THEN FALSE ELSE @,
                     !.stored = @ \cup r.stored,
                     !.sent = @ \o r.sent,
                     !.delivered = @ \cup {c}])

RECURSIVE PassOver(_, _, _)
PassOver(acc, todo, outcome) ==
  IF todo = <<>> THEN acc
  ELSE With(PassEntry(acc, Head(todo), outcome), LAMBDA next :
         IF next.live THEN PassOver(next, Tail(todo), outcome) ELSE next)

(* The connections whose socket holds a PDU for this pass.                 *)
Pending(rx) == {c \in DOMAIN rx : rx[c] # <<>> /\ Head(rx[c]) # <<>>}

process_events(st, rx, unconf, outcome) ==
  PassOver(PassStart(st, rx, unconf), Ascending(DOMAIN st.tconns), outcome)

(* accept_l2cap_connection at the head of process_events: the connection   *)
(* of peer_addr is pending, or none is ("none").                           *)
NoPeer == "none"

Accepts(peer_addr) ==
  /\ peer_addr # NoPeer
  /\ \A c \in DOMAIN bluez_connections_ : bluez_connections_[c].peer_addr # peer_addr

ProcessEventsPass(peer_addr, outcome) ==
  /\ Quiet
  /\ running_
  /\ peer_addr = NoPeer \/ Accepts(peer_addr)
  /\ Accepts(peer_addr) \/ \E c \in DOMAIN socket_rx : socket_rx[c] # <<>>
  /\ With(next_conn_handle_, LAMBDA conn_handle :
     With(IF Accepts(peer_addr)
          THEN [st |-> [St EXCEPT
                          !.tconns = Put(@, conn_handle,
                                         NewConnection(conn_handle, peer_addr)),
                          !.conns = on_transport_connected(@, conn_handle)],
                rx |-> Put(socket_rx, conn_handle, <<>>),
                unconfirmed |-> Put(unconfirmed, conn_handle, FALSE),
                next |-> (next_conn_handle_ + 1) % ConnHandleWidth]
          ELSE [st |-> St, rx |-> socket_rx, unconfirmed |-> unconfirmed,
                next |-> next_conn_handle_], LAMBDA a :
     With(process_events(a.st, a.rx, a.unconfirmed, outcome), LAMBDA r :
       /\ next_conn_handle_' = a.next
       /\ attributes_' = r.st.attrs
       /\ connections_' = r.st.conns
       /\ bluez_connections_' = r.st.tconns
       /\ socket_rx' = r.rx
       /\ unconfirmed' = r.unconfirmed
       /\ app_values' = app_values \ r.stored
       /\ call' = [fn |-> "process_events", arg |-> <<Pending(a.rx)>>,
                   ret |-> [delivered |-> r.delivered, erased |-> r.erased]]
       /\ last' = [Idle EXCEPT !.op = "pass", !.sent = r.sent])))
  /\ UNCHANGED <<nimble_vars, thread_vars, next_handle_, services_, running_,
                 disc, added_under>>

PassPdus == {<<ATT_OP_READ_REQ, 8, 0>>, <<ATT_OP_MTU_REQ, 30, 0>>}

NextPass ==
  \/ \E services \in {SensorTree} : RegisterServices(services)
  \/ Run
  \/ \E peer_addr \in SubPeers : AcceptConnection(peer_addr)
  \/ \E c \in Links, pdu \in PassPdus : ClientSend(c, pdu)
  \/ \E c \in Links : ClientClose(c)
  \/ \E peer_addr \in SubPeers \cup {NoPeer}, outcome \in EraseOutcomes :
       ProcessEventsPass(peer_addr, outcome)
  \/ Return

SpecPass == Init /\ [][NextPass]_vars

(* C39: a pass of process_events erases no entry of the connection map,    *)
(* and delivers a PDU of every connection whose socket held one.           *)
C39_PassKeepsMapAndDelivers ==
  call.fn = "process_events" =>
    /\ call.ret.erased = {}
    /\ call.arg[1] \subseteq call.ret.delivered

---------------------------------------------------------------------------
(* register_services with trees that hold included services, one of them   *)
(* naming a handle that no row has, and descriptors.                       *)

DscDef(uuid, permissions) == [uuid |-> uuid, permissions |-> permissions, access_cb |-> NoCb]

Including(included_services) ==
  [ServiceDef("SECONDARY", UUID16(6154), <<>>)
     EXCEPT !.included_services = included_services]

(* A service and a second one that includes it (rows 1, 2, 3).             *)
IncludeTree ==
  << ServiceDef("PRIMARY", UUID16(6159), <<>>), Including(<<1>>) >>

(* A service that includes handle 9, which does not exist.                 *)
DanglingTree ==
  << Including(<<9>>), ServiceDef("PRIMARY", UUID16(6159), <<>>) >>

(* A notifying characteristic with a user description.                     *)
DescribedTree ==
  << ServiceDef("PRIMARY", UUID16(6159),
       << [CharDef(UUID16(10777), GATT_CHR_F_READ + GATT_CHR_F_NOTIFY, NoCb)
             EXCEPT !.descriptors = <<DscDef(UUID_USER_DESCRIPTION, ATT_PERM_READ)>>] >>) >>

RegTrees == {SensorTree, IncludeTree, DanglingTree, DescribedTree}

(* register_services called by the application, with its argument and the  *)
(* value it returns.                                                       *)
RegisterTree(services) ==
  /\ Quiet
  /\ ~running_
  /\ attributes_ = <<>>
  /\ With(register_services(Db, services), LAMBDA r :
       /\ SetDb(r.db)
       /\ added_under' = [h \in DOMAIN r.db.attributes_ |->
                            EnclosingService(r.db.attributes_, h)]
       /\ last' = [Idle EXCEPT !.op = "register_services", !.ret = r.ret]
       /\ call' = [fn |-> "register_services", arg |-> services, ret |-> r.ret])
  /\ UNCHANGED <<nimble_vars, thread_vars, running_, connections_,
                 bluez_connections_, next_conn_handle_, app_values, disc, io_vars>>

NextReg ==
  \/ \E services \in RegTrees : RegisterTree(services)
  \/ Run
  \/ \E peer_addr \in LinkPeers : AcceptConnection(peer_addr)
  \/ \E c \in Links : Disconnect(c)
  \/ \E c \in Links, h \in ReqHandles : ReadReq(c, h)
  \/ \E c \in Links : FindInfoReq(c, 1, 65535)
  \/ Return

SpecReg == Init /\ [][NextReg]_vars

(* The row types a tree is to produce, in declaration order.               *)
RECURSIVE CharRows(_, _)
CharRows(chars, i) ==
  IF i > Len(chars) THEN <<>>
  ELSE <<"CHARACTERISTIC", "CHARACTERISTIC_VALUE">>
       \o (IF \/ HasBit(flags_to_properties(chars[i].flags), GATT_CHR_PROP_NOTIFY)
              \/ HasBit(flags_to_properties(chars[i].flags), GATT_CHR_PROP_INDICATE)
           THEN <<"DESCRIPTOR">> ELSE <<>>)
       \o [k \in 1..Len(chars[i].descriptors) |-> "DESCRIPTOR"]
       \o CharRows(chars, i + 1)

RECURSIVE TreeRows(_, _)
TreeRows(services, i) ==
  IF i > Len(services) THEN <<>>
  ELSE <<IF services[i].type = "PRIMARY" THEN "PRIMARY_SERVICE"
         ELSE "SECONDARY_SERVICE">>
       \o [k \in 1..Len(services[i].included_services) |-> "INCLUDE"]
       \o CharRows(services[i].characteristics, 1)
       \o TreeRows(services, i + 1)

(* The types of the rows of the database in the order of their handles.    *)
RowTypes(attrs) ==
  With(Ascending(DOMAIN attrs), LAMBDA hs : [k \in DOMAIN hs |-> attrs[hs[k]].type])

(* C40: when register_services returns 0 on an empty database, the rows of *)
(* the database are those of the tree, every one of them, in declaration   *)
(* order.                                                                  *)
C40_RegisterReportsFailure ==
  (call.fn = "register_services" /\ call.ret = 0)
    => RowTypes(attributes_) = TreeRows(call.arg, 1)

====
